---- MODULE Spec2Model ----
(***************************************************************************)
(* A model of the pyjs8call session engine: the JS8Call socket object      *)
(* (js8call.py: state store, watch, transmit dispatcher, receive path,     *)
(* spot store), the transmit status tracker (txmonitor.py) and the client  *)
(* operations that drive them (client.py).                                 *)
(*                                                                         *)
(* Texts are sequences of one-character strings, so that strip and split   *)
(* are computed as Python computes them.  Python's None is the value None  *)
(* below, which no text operation produces.                                *)
(***************************************************************************)
EXTENDS Integers, Sequences, FiniteSets, TLC

\* ------------------------------------------------------------------ bounds

\* messages constructed by client operations
NumMsgs == 2
\* received messages waiting in the consumer queue
MaxRxQueue == 1
\* frames the receive loop reads from the socket
MaxFrames == 3

\* --------------------------------------------------------------- constants

None == <<"None">>

Msgs == 1..NumMsgs

\* Message.TX_SEND_MESSAGE and one of the other outbound kinds (a request)
TX_SEND_MESSAGE == "TX.SEND_MESSAGE"
RX_GET_TEXT == "RX.GET_TEXT"
TxTypes == {TX_SEND_MESSAGE, RX_GET_TEXT}

\* inbound kinds handled by _process_message
TX_FRAME == "TX.FRAME"
TX_TEXT == "TX.TEXT"
STATION_GRID == "STATION.GRID"
STATION_STATUS == "STATION.STATUS"

STATUS_CREATED == "created"
STATUS_QUEUED == "queued"
STATUS_SENDING == "sending"
STATUS_SENT == "sent"
STATUS_FAILED == "failed"
STATUS_RECEIVED == "received"

\* the keys of JS8Call.state
StateKeys ==
    {"ptt", "dial", "freq", "offset", "callsign", "speed", "grid", "info",
     "rx_text", "tx_text", "inbox", "call_activity", "band_activity",
     "selected_call"}

\* ------------------------------------------------------------------- texts

Blank == <<>>
Space == " "
\* Message.EOM, the end-of-message symbol
EOM == "^"

RECURSIVE LStrip(_, _)
LStrip(s, cs) ==
    IF s # <<>> /\ Head(s) \in cs THEN LStrip(Tail(s), cs) ELSE s

RECURSIVE RStrip(_, _)
RStrip(s, cs) ==
    IF s # <<>> /\ s[Len(s)] \in cs THEN RStrip(SubSeq(s, 1, Len(s) - 1), cs) ELSE s

\* str.strip(chars)
StripChars(s, cs) == RStrip(LStrip(s, cs), cs)

\* str.strip()
Strip(s) == StripChars(s, {Space})

\* ':' in s
HasColon(s) == \E i \in 1..Len(s) : s[i] = ":"

\* positions of ':' in s, and s.split(':')[1] for a text that holds a ':'
ColonAt(s) == {i \in 1..Len(s) : s[i] = ":"}
FirstColon(s) == CHOOSE i \in ColonAt(s) : \A j \in ColonAt(s) : i <= j
SplitColon1(s) ==
    LET a == FirstColon(s)
        later == {i \in ColonAt(s) : i > a}
        b == IF later = {} THEN Len(s) + 1
             ELSE CHOOSE i \in later : \A j \in later : i <= j
    IN SubSeq(s, a + 1, b - 1)

\* Message.ERR, the error symbol the modem puts in a garbled text (an ellipsis
\* in the program)
ERR == "!"

\* Message.ERR in s
HasErr(s) == \E i \in 1..Len(s) : s[i] = ERR

\* --------------------------------------------------------------- variables

VARIABLES
    online,          \* JS8Call.online
    state,           \* JS8Call.state
    watching,        \* JS8Call._watching
    rx_queue,        \* JS8Call._rx_queue
    tx_queue,        \* JS8Call._tx_queue (message ids)
    tx_queue_lock,   \* holder of JS8Call._tx_queue_lock, or "free"
    txpc,            \* position of the _tx thread
    txcopy,          \* the part of self._tx_queue.copy() still to visit
    tx_text,         \* local tx_text of _tx
    force_tx_text,   \* local force_tx_text of _tx
    socket,          \* the messages written with sendall, in order
    tx_skipped,      \* history: the test of line 272 has just found the marker on tx_text
    mtype,           \* msg.type of each constructed message
    status,          \* msg.status of each constructed message
    spc,             \* position of the client operation that sends each message
    monitor_outgoing,\* Client.monitor_outgoing
    wpc,             \* position of the watch() call
    witem,           \* its argument
    last_state,      \* its local last_state
    wret,            \* its return value
    wg,              \* history of the current watch() call
    rx_state,        \* history: the state store as the receive path wrote it
    mts,             \* msg.timestamp of each constructed message
    mvalue,          \* msg.value of each constructed message
    now,             \* time.time(), in seconds
    tx_window,       \* the _monitor thread's local tx_window, in seconds
    msg_queue,       \* TxMonitor._msg_queue (message ids)
    msg_queue_lock,  \* holder of TxMonitor._msg_queue_lock, or "free"
    msg_max_age,     \* TxMonitor._msg_max_age
    monpc,           \* position of the _monitor thread
    mon_text,        \* its local tx_text
    mon_left,        \* iterations left of its for loop
    mon_cycle,       \* history: the messages overdue when its latest cycle began
    spots,           \* JS8Call.spots
    recent_spots,    \* JS8Call._recent_spots
    max_spots,       \* JS8Call.max_spots
    spot_log,        \* history: every spot stored, in order
    heard,           \* history: the latest message handed to spot()
    rxpc,            \* position of the _rx thread
    rx_msgs,         \* _rx: the frames of the current socket read still to handle
    rx_seq,          \* history: the frames numbered so far
    got,             \* the latest return value of get_next_message
    rx_read,         \* history: the frames of the current socket read
    rx_done,         \* history: those of them handed to _process_message
    last_tx_frame_timestamp,  \* WindowMonitor._last_tx_frame_timestamp
    last_rx_msg_timestamp,    \* WindowMonitor._last_rx_msg_timestamp
    next_window_timestamp,    \* WindowMonitor._next_window_timestamp
    rx_registered,   \* process_rx_msg is registered as an incoming callback
    win_enabled,     \* WindowMonitor._enabled
    window_callbacks,\* history: the calls of WindowMonitor._callback
    hpc,             \* position of each callback thread
    hts,             \* msg.timestamp of the message it handles
    stamped,         \* history: the latest two tx frames stamped, oldest first
    adone,           \* the activity queries that have ended
    araised,         \* an activity query ended with an error
    afresh,          \* history: the receive path stored a new activity list after
                     \* watch() returned the stored one
    rejected,        \* the messages whose msg.error process_outgoing has set
    connected,       \* JS8Call.connected
    last_rx_timestamp, \* JS8Call._last_rx_timestamp
    hbpc,            \* position of the _hb thread
    called,          \* the observer calls of the tracker's latest turn: the message
                     \* of the turn and the number of calls
    tx_seen,         \* history: what the dispatcher has read in the tx text since
                     \* it last wrote a TX_SEND_MESSAGE
    tx_pass,         \* history: the TX_SEND_MESSAGE frames written in the pass
    wire,            \* the bytes the modem has written that _rx has yet to read
    wrote,           \* history: the number of frames the modem has written
    hb_enabled,      \* HeartbeatMonitor._enabled
    hb_paused,       \* HeartbeatMonitor._paused
    hbmpc,           \* position of the HeartbeatMonitor._monitor thread
    last_hb_timestamp, \* its local last_hb_timestamp
    hb_sent,         \* history: the calls of Client.send_heartbeat it has made
    spot_callbacks,  \* the number of functions in client.callback.spots,
                     \* .station_spot and .group_spot
    station_watch_list, \* SpotMonitor._station_watch_list
    group_watch_list,   \* SpotMonitor._group_watch_list
    spot_calls       \* history: the latest call of SpotMonitor._callback, its
                     \* argument and the callback threads it started

txVars == <<tx_queue, tx_queue_lock, txpc, txcopy, tx_text, force_tx_text, socket,
           tx_skipped>>
msgVars == <<mtype, status, spc, monitor_outgoing, mts, mvalue>>
envVars == <<now, tx_window>>
monVars == <<msg_queue, msg_queue_lock, msg_max_age, monpc, mon_text, mon_left, mon_cycle>>
spotVars == <<spots, recent_spots, max_spots, spot_log, heard>>
watchVars == <<wpc, witem, last_state, wret, wg>>
storeVars == <<state, watching, rx_queue, rx_state>>
rxVars == <<rxpc, rx_msgs, rx_seq, got, rx_read, rx_done>>
stampVars == <<last_tx_frame_timestamp, last_rx_msg_timestamp, next_window_timestamp,
               rx_registered>>
winVars == <<stampVars, win_enabled, window_callbacks, hpc, hts, stamped>>

actVars == <<adone, araised, afresh>>
hbVars == <<connected, last_rx_timestamp, hbpc>>
holdVars == <<tx_seen, tx_pass>>
segVars == <<wire, wrote>>
hbmVars == <<hb_enabled, hb_paused, hbmpc, last_hb_timestamp, hb_sent>>
smVars == <<spot_callbacks, station_watch_list, group_watch_list, spot_calls>>
extVars == <<segVars, hbmVars, smVars>>

vars == <<online, storeVars, txVars, msgVars, watchVars, envVars, monVars, spotVars,
          rxVars, winVars, actVars, rejected, hbVars, called, holdVars, extVars>>

\* the callers of watch(): two application threads
Watchers == {"w1", "w2"}

\* the threads that Client._rx starts for incoming callbacks
Handlers == {"h1", "h2"}

\* the caller whose calls the history wg records
Observed == {"w1"}

\* ---------------------------------------------------------- receive path

\* window durations: turbo and fast mode (txmonitor.py, lines 54-55)
TurboWindow == 6
FastWindow == 10
Windows == {TurboWindow, FastWindow}

\* inbound message kinds of the model that set a state entry
RxTypes == {TX_TEXT, STATION_GRID}

\* the band activity request and its response
RX_GET_BAND_ACTIVITY == "RX.GET_BAND_ACTIVITY"
RX_BAND_ACTIVITY == "RX.BAND_ACTIVITY"

\* inbound kinds that are spotted, and a command of Message.COMMANDS
RX_SPOT == "RX.SPOT"
RX_DIRECTED == "RX.DIRECTED"
CMD_SNR == <<"S", "N", "R">>
COMMANDS == {CMD_SNR}

\* ------------------------------------------------------------- spot store

\* the age below which a spot is recent, in seconds (spot(), line 229)
RecentAge == 10

\* Spot(msg): the station heard (origin, destination, command and value of the
\* message) and the time of the message
NewSpot(who, c, t) == [who |-> who, cmd |-> c, ts |-> t]

\* Spot.age()
SpotAge(sp) == now - sp.ts

\* Spot.__eq__: the same station event, heard within the recent window
SpotEq(a, b) ==
    /\ a.who = b.who
    /\ a.cmd = b.cmd
    /\ a.ts - b.ts < RecentAge
    /\ b.ts - a.ts < RecentAge

\* spot(), line 229: the recent spots that are kept
CullRecent(rs) == SelectSeq(rs, LAMBDA sp : SpotAge(sp) < RecentAge)

\* mutant of the duplicate test: every spot is new
SpotAlwaysNew(sp, rs) == TRUE

\* spot(), line 233: new_spot not in self._recent_spots
SpotIsNew(sp, rs) == ~\E i \in 1..Len(rs) : SpotEq(rs[i], sp)

\* mutant of the capacity cull: nothing is dropped
CullNothing(sps) == sps

\* spot(), lines 237-239: drop the oldest spot over max_spots
CullSpots(sps) == IF Len(sps) > max_spots THEN Tail(sps) ELSE sps

\* spot(msg): the spot store after the call, as <<spots, recent_spots, spot_log>>
SpotStore(sps, rs, log, sp) ==
    LET kept == CullRecent(rs)
    IN IF SpotIsNew(sp, kept)
       THEN <<CullSpots(Append(sps, sp)), Append(kept, sp), Append(log, sp)>>
       ELSE <<CullSpots(sps), kept, log>>

\* _process_message, lines 391-428: the calls of spot() for one message
SpotCalls(t, c) ==
    (IF c \in COMMANDS THEN 1 ELSE 0) + (IF t \in {RX_SPOT, RX_DIRECTED} THEN 1 ELSE 0)

RECURSIVE SpotTimes(_, _, _)
SpotTimes(n, store, sp) ==
    IF n = 0 THEN store
    ELSE SpotTimes(n - 1, SpotStore(store[1], store[2], store[3], sp), sp)

\* _process_message, message type handling: the state entries a message sets
ProcessState(st, t, v) ==
    CASE t = STATION_GRID -> [st EXCEPT !["grid"] = v]
      [] t = TX_TEXT -> [st EXCEPT !["tx_text"] = v]
      [] t = RX_BAND_ACTIVITY -> [st EXCEPT !["band_activity"] = v]
      [] OTHER -> st

\* the state entries a message of kind t assigns
Assigned(t) ==
    CASE t = STATION_GRID -> {"grid"}
      [] t = TX_TEXT -> {"tx_text"}
      [] t = RX_BAND_ACTIVITY -> {"band_activity"}
      [] OTHER -> {}

\* history of a watch() call after the receive path stored v in its item
Stored(g, pc, v) ==
    IF pc \in {"reset", "poll", "check", "restore", "clear", "ret"}
    THEN [prior |-> g.prior,
          nonNone |-> g.nonNone \/ (v # None),
          noneStore |-> g.noneStore \/ (v = None /\ pc # "reset"),
          pollStore |-> g.pollStore \/ (v # None /\ pc = "poll"),
          noneLate |-> g.noneLate \/ (v = None /\ pc \in {"clear", "ret"})]
    ELSE g

\* append_to_rx_queue; n is the number the history gave the message (0: none)
AppendToRxQueue(q, t, n) ==
    Append(q, [type |-> t, status |-> STATUS_QUEUED, id |-> n])

\* _process_message, line 480: self._client.window_monitor is evaluated for a
\* tx frame; Client has no attribute of that name (client.py names its window
\* monitor self.window), so the call raises AttributeError
Raises(t) == t = TX_FRAME

\* the list a band activity message stores replaces one that an activity query
\* holds: watch() returned the stored list and the query has yet to filter it
Held(t) ==
    /\ t = RX_BAND_ACTIVITY
    /\ \E w \in Watchers : wpc[w] = "returned" /\ witem[w] = "band_activity"

\* _process_message(msg) for a message of type t, value v and command c,
\* numbered n by the history; _rx calls it outside any try (line 372), so an
\* error it raises ends the _rx thread before append_to_rx_queue (line 482)
Process(t, v, c, n) ==
    /\ state' = ProcessState(state, t, v)
    /\ rx_state' = ProcessState(rx_state, t, v)
    /\ rx_queue' = IF Raises(t) THEN rx_queue ELSE AppendToRxQueue(rx_queue, t, n)
    /\ rxpc' = IF Raises(t) THEN "dead" ELSE rxpc
    /\ wg' = [w \in Watchers |->
                IF w \in Observed /\ witem[w] \in Assigned(t)
                THEN Stored(wg[w], wpc[w], v) ELSE wg[w]]
    /\ LET k == SpotCalls(t, c)
           after == SpotTimes(k, <<spots, recent_spots, spot_log>>, NewSpot(v, c, now))
       IN /\ spots' = after[1]
          /\ recent_spots' = after[2]
          /\ spot_log' = after[3]
          /\ heard' = IF k > 0 THEN [who |-> v, cmd |-> c, at |-> now] ELSE heard
    /\ afresh' = (afresh \/ Held(t))
    /\ UNCHANGED max_spots
    /\ UNCHANGED <<online, extVars, holdVars, called, hbVars, rejected, adone, araised, got, winVars, envVars, monVars, watching, txVars, msgVars,
                   wpc, witem, last_state, wret>>

\* _rx reads one frame from the socket and hands the decoded message (its
\* type, value and command) to _process_message
ProcessMessage(t, v, c) ==
    /\ online
    /\ rxpc = "run"
    /\ rx_msgs = <<>>
    /\ Len(rx_queue) < MaxRxQueue
    /\ Process(t, v, c, 0)
    /\ UNCHANGED <<rx_msgs, rx_seq, rx_read, rx_done>>

\* what get_next_message returns when the queue is empty (None)
NoMessage == [type |-> "None", status |-> "None", id |-> 0]

\* get_next_message, lines 170-176: the first message, with status RECEIVED
GetNextMessage ==
    /\ Len(rx_queue) > 0
    /\ rx_queue' = Tail(rx_queue)
    /\ got' = [Head(rx_queue) EXCEPT !.status = STATUS_RECEIVED]
    /\ UNCHANGED <<online, extVars, holdVars, called, hbVars, rejected, actVars, rxpc, rx_msgs, rx_seq, rx_read, rx_done, winVars, envVars, monVars, spotVars, state,
                   watching, rx_state, txVars, msgVars, watchVars>>

\* get_next_message with an empty queue returns None
GetNextNone ==
    /\ Len(rx_queue) = 0
    /\ got' = NoMessage
    /\ UNCHANGED <<online, extVars, holdVars, called, hbVars, rejected, actVars, rxpc, rx_msgs, rx_seq, rx_read, rx_done, winVars, envVars, monVars, spotVars,
                   storeVars, txVars, msgVars, watchVars>>

\* a decoded frame: the type, value and command of its message
Frame(t, v, c) == [type |-> t, value |-> v, cmd |-> c]

\* time.time(): the model's clock counts from the start of the program
Epoch == 1000
Time == Epoch + now

\* _rx, lines 328-348: one socket read delivers the frames of batch (data that
\* decodes and is not empty), and lines 344-345 note the time and set connected;
\* a read that times out, fails to decode or is empty changes nothing
RxRecv(batch) ==
    /\ online
    /\ rxpc = "run"
    /\ rx_msgs = <<>>
    /\ rx_seq + Len(batch) <= MaxFrames
    /\ rx_msgs' = batch
    /\ rx_read' = batch
    /\ rx_done' = <<>>
    /\ last_rx_timestamp' = Time
    /\ connected' = TRUE
    /\ UNCHANGED <<online, extVars, holdVars, called, hbpc, rejected, actVars, rxpc, rx_seq, got, winVars, envVars, monVars, spotVars,
                   storeVars, txVars, msgVars, watchVars>>

\* mutant of the error test: no frame is discarded
RxDiscardsNothing(f) == FALSE

\* _rx, line 362: the message holds the error symbol in its value
RxDiscards(f) == f.value # None /\ HasErr(f.value)

\* _rx, lines 350-372: one iteration of the for loop over the frames read
RxStep ==
    /\ rxpc = "run"
    /\ rx_msgs # <<>>
    /\ rx_msgs' = Tail(rx_msgs)
    /\ rx_read' = rx_read
    /\ LET f == Head(rx_msgs)
       IN IF RxDiscards(f)
          THEN UNCHANGED <<online, extVars, holdVars, called, hbVars, rejected, actVars, rxpc, rx_seq, got, rx_done, winVars, envVars, monVars,
                           spotVars, storeVars, txVars, msgVars, watchVars>>
          ELSE /\ Process(f.type, f.value, f.cmd, rx_seq + 1)
               /\ rx_seq' = rx_seq + 1
               /\ rx_done' = Append(rx_done, f)

\* --------------------------------------------------------- window monitor

\* the history before any tx frame
NoFrame == [T |-> 0, W |-> 0]

otherVars ==
    <<rxVars, envVars, monVars, spotVars, storeVars, txVars, msgVars, watchVars, actVars,
      rejected, hbVars, called, holdVars, extVars>>

\* the local msg of a callback thread that has ended
Ended(ts, h) == [ts EXCEPT ![h] = 0]

\* Client._rx, lines 529-533: a thread is started that calls process_tx_frame
\* with a tx frame message; its timestamp is the time it was received, a
\* positive number of seconds
TxFrameCall(h) ==
    /\ online
    /\ now > 0
    /\ hpc[h] = "idle"
    /\ hpc' = [hpc EXCEPT ![h] = "txlock"]
    /\ hts' = [hts EXCEPT ![h] = now]
    /\ UNCHANGED <<online, otherVars, stampVars, win_enabled, window_callbacks, stamped>>

\* mutant of the stamp: a tx frame never moves the prediction back
TxFrameNextNotBack(T, w) ==
    IF next_window_timestamp > T + w THEN next_window_timestamp ELSE T + w

\* process_tx_frame, line 111: the next transition after a tx frame at T
TxFrameNext(T, w) == T + w

\* process_tx_frame, lines 109-111, under the timestamp lock; w is the window
\* duration get_tx_window_duration() returns
TxFrameStamp(h, w) ==
    /\ hpc[h] = "txlock"
    /\ last_tx_frame_timestamp' = hts[h]
    /\ next_window_timestamp' = TxFrameNext(hts[h], w)
    /\ stamped' = <<stamped[2], [T |-> hts[h], W |-> w]>>
    /\ hpc' = [hpc EXCEPT ![h] = "txstop"]
    /\ UNCHANGED <<online, otherVars, last_rx_msg_timestamp, rx_registered, win_enabled,
                   window_callbacks, hts>>

\* process_tx_frame, lines 114-116: stop using rx messages
TxFrameStop(h) ==
    /\ hpc[h] = "txstop"
    /\ IF last_rx_msg_timestamp # 0
       THEN rx_registered' = FALSE /\ last_rx_msg_timestamp' = 0
       ELSE UNCHANGED <<rx_registered, last_rx_msg_timestamp>>
    /\ hpc' = [hpc EXCEPT ![h] = "idle"]
    /\ hts' = Ended(hts, h)
    /\ UNCHANGED <<online, otherVars, last_tx_frame_timestamp, next_window_timestamp,
                   win_enabled, window_callbacks, stamped>>

\* Client._rx, lines 529-533: a thread is started that calls process_rx_msg
\* with a directed or activity message, while the callback is registered
RxMsgCall(h) ==
    /\ online
    /\ now > 0
    /\ rx_registered
    /\ hpc[h] = "idle"
    /\ hpc' = [hpc EXCEPT ![h] = "rxcheck"]
    /\ hts' = [hts EXCEPT ![h] = now]
    /\ UNCHANGED <<online, otherVars, stampVars, win_enabled, window_callbacks, stamped>>

\* process_rx_msg, lines 128-129: return once a tx frame has been heard
RxMsgCheck(h) ==
    /\ hpc[h] = "rxcheck"
    /\ IF last_tx_frame_timestamp # 0
       THEN hpc' = [hpc EXCEPT ![h] = "idle"] /\ hts' = Ended(hts, h)
       ELSE hpc' = [hpc EXCEPT ![h] = "rxtest"] /\ hts' = hts
    /\ UNCHANGED <<online, otherVars, stampVars, win_enabled, window_callbacks, stamped>>

\* process_rx_msg, line 133: the first rx message of a window cycle
RxMsgFirst(T, w) == 2 * (T - last_rx_msg_timestamp) > w

\* process_rx_msg, lines 132-133, with the window duration w it reads
RxMsgTest(h, w) ==
    /\ hpc[h] = "rxtest"
    /\ IF RxMsgFirst(hts[h], w)
       THEN hpc' = [hpc EXCEPT ![h] = "rxwrite"] /\ hts' = hts
       ELSE hpc' = [hpc EXCEPT ![h] = "idle"] /\ hts' = Ended(hts, h)
    /\ UNCHANGED <<online, otherVars, stampVars, win_enabled, window_callbacks, stamped>>

\* process_rx_msg, lines 134-137, under the timestamp lock
RxMsgWrite(h) ==
    /\ hpc[h] = "rxwrite"
    /\ last_rx_msg_timestamp' = hts[h]
    /\ next_window_timestamp' = hts[h] + 2
    /\ hpc' = [hpc EXCEPT ![h] = "idle"]
    /\ hts' = Ended(hts, h)
    /\ UNCHANGED <<online, otherVars, last_tx_frame_timestamp, rx_registered, win_enabled,
                   window_callbacks, stamped>>

\* next_transition_timestamp(count, fallback), with the window duration w it
\* reads; the timestamps of the model are whole seconds, which round(x, 3)
\* leaves as they are
NextTransitionTimestamp(count, fallback, w) ==
    IF next_window_timestamp = 0 THEN fallback ELSE next_window_timestamp + w * count

\* mutant of the timer's test: an unknown transition counts as passed
WinPassedUnknown == next_window_timestamp < now

\* _monitor, line 180: the transition is known and has passed
WinPassed == next_window_timestamp # 0 /\ next_window_timestamp < now

\* _monitor, lines 178-186: an iteration of the timer that finds the
\* transition passed; the loop runs while _enabled is set
WinMonitor(w) ==
    /\ win_enabled
    /\ WinPassed
    /\ window_callbacks' = window_callbacks + 1
    /\ next_window_timestamp' = next_window_timestamp + w
    /\ UNCHANGED <<online, otherVars, last_tx_frame_timestamp, last_rx_msg_timestamp,
                   rx_registered, win_enabled, hpc, hts, stamped>>

\* Client.stop, line 402, and JS8Call.stop: the online flag is cleared;
\* neither calls WindowMonitor.disable
Stop ==
    /\ online
    /\ online' = FALSE
    /\ UNCHANGED <<otherVars, winVars>>

\* ------------------------------------------------------------------ watch

NoHistory ==
    [prior |-> None, nonNone |-> FALSE, noneStore |-> FALSE, pollStore |-> FALSE,
     noneLate |-> FALSE]

\* mutant of the early return: the tx text is returned for an unknown item
WatchUnknownAsTxText(w) == state["tx_text"]

\* watch(item), line 197: return None
WatchUnknownResult(w) == None

\* watch(item), lines 196-200: an unknown item returns None at once; otherwise
\* the marker is set and the current value saved
WatchCall(w, item) ==
    /\ wpc[w] = "idle"
    /\ witem' = [witem EXCEPT ![w] = item]
    /\ IF item \notin StateKeys
       THEN /\ wpc' = [wpc EXCEPT ![w] = "returned"]
            /\ wret' = [wret EXCEPT ![w] = WatchUnknownResult(w)]
            /\ wg' = [wg EXCEPT ![w] = NoHistory]
            /\ UNCHANGED <<watching, last_state>>
       ELSE /\ wpc' = [wpc EXCEPT ![w] = "reset"]
            /\ watching' = item
            /\ last_state' = [last_state EXCEPT ![w] = state[item]]
            /\ wg' = [wg EXCEPT ![w] = IF w \in Observed
                                        THEN [NoHistory EXCEPT !.prior = state[item]]
                                        ELSE NoHistory]
            /\ UNCHANGED wret
    /\ UNCHANGED <<online, extVars, holdVars, called, hbVars, rejected, actVars, rxVars, winVars, envVars, monVars, spotVars, state, rx_queue, rx_state, txVars, msgVars>>

\* line 201: self.state[item] = None
WatchResetState(st, item) == [st EXCEPT ![item] = None]

WatchReset(w) ==
    /\ wpc[w] = "reset"
    /\ state' = WatchResetState(state, witem[w])
    /\ wpc' = [wpc EXCEPT ![w] = "poll"]
    /\ UNCHANGED <<online, extVars, holdVars, called, hbVars, rejected, actVars, rxVars, winVars, envVars, monVars, spotVars, watching, rx_queue, rx_state, txVars, msgVars,
                   witem, last_state, wret, wg>>

\* lines 204-207: the poll loop ends when the item is set
WatchPoll(w) ==
    /\ wpc[w] = "poll"
    /\ state[witem[w]] # None
    /\ wpc' = [wpc EXCEPT ![w] = "check"]
    /\ UNCHANGED <<online, extVars, holdVars, called, hbVars, rejected, actVars, rxVars, winVars, envVars, monVars, spotVars, storeVars, txVars, msgVars, witem, last_state, wret, wg>>

\* line 204: or when _watch_timeout seconds have passed
WatchTimeout(w) ==
    /\ wpc[w] = "poll"
    /\ wpc' = [wpc EXCEPT ![w] = "check"]
    /\ UNCHANGED <<online, extVars, holdVars, called, hbVars, rejected, actVars, rxVars, winVars, envVars, monVars, spotVars, storeVars, txVars, msgVars, witem, last_state, wret, wg>>

\* mutants of the rollback test: it never rolls back; it always does
WatchNeverRestores(w) == FALSE
WatchAlwaysRestores(w) == TRUE

\* line 210: if self.state[item] == None
WatchNeedsRestore(w) == state[witem[w]] = None

WatchCheck(w) ==
    /\ wpc[w] = "check"
    /\ wpc' = [wpc EXCEPT ![w] = IF WatchNeedsRestore(w) THEN "restore" ELSE "clear"]
    /\ UNCHANGED <<online, extVars, holdVars, called, hbVars, rejected, actVars, rxVars, winVars, envVars, monVars, spotVars, storeVars, txVars, msgVars, witem, last_state, wret, wg>>

\* mutant of the rollback: the entry is left as the reset put it
WatchRestoreNothing(st, item, last) == st

\* line 211: self.state[item] = last_state
WatchRestoreState(st, item, last) == [st EXCEPT ![item] = last]

WatchRestore(w) ==
    /\ wpc[w] = "restore"
    /\ state' = WatchRestoreState(state, witem[w], last_state[w])
    /\ wpc' = [wpc EXCEPT ![w] = "clear"]
    /\ UNCHANGED <<online, extVars, holdVars, called, hbVars, rejected, actVars, rxVars, winVars, envVars, monVars, spotVars, watching, rx_queue, rx_state, txVars, msgVars,
                   witem, last_state, wret, wg>>

\* line 213: self._watching = None
WatchClear(w) ==
    /\ wpc[w] = "clear"
    /\ watching' = None
    /\ wpc' = [wpc EXCEPT ![w] = "ret"]
    /\ UNCHANGED <<online, extVars, holdVars, called, hbVars, rejected, actVars, rxVars, winVars, envVars, monVars, spotVars, state, rx_queue, rx_state, txVars, msgVars,
                   witem, last_state, wret, wg>>

\* line 214: return self.state[item]
WatchResult(w) == state[witem[w]]

WatchReturn(w) ==
    /\ wpc[w] = "ret"
    /\ wret' = [wret EXCEPT ![w] = WatchResult(w)]
    /\ wpc' = [wpc EXCEPT ![w] = "returned"]
    /\ UNCHANGED <<online, extVars, holdVars, called, hbVars, rejected, actVars, rxVars, winVars, envVars, monVars, spotVars, storeVars, txVars, msgVars, witem, last_state, wg>>

\* the caller takes the result and the call's frame is gone; it may call again
WatchDone(w) ==
    /\ wpc[w] = "returned"
    /\ wpc' = [wpc EXCEPT ![w] = "idle"]
    /\ last_state' = [last_state EXCEPT ![w] = None]
    /\ wret' = [wret EXCEPT ![w] = None]
    /\ wg' = [wg EXCEPT ![w] = NoHistory]
    /\ UNCHANGED <<online, extVars, holdVars, called, hbVars, rejected, actVars, rxVars, winVars, envVars, monVars, spotVars, storeVars, txVars, msgVars, witem>>

\* ------------------------------------------------------- activity queries

\* the band activity items the modem reports
Activities == {"a", "b"}

\* activity['offset'] and activity['timestamp'] (seconds on the model's clock,
\* which starts at 0: "b" was heard before that)
Offset(a) == IF a = "a" THEN 2 ELSE 1
Timestamp(a) == IF a = "a" THEN 0 ELSE -1

\* get_band_activity(age): age is None
NoAge == -1

\* get_band_activity, lines 1366-1367: minutes to seconds
AgeSeconds(age) == age * 60

\* get_band_activity, lines 1378-1385: the items no older than age are kept
ActKept(list, age) ==
    IF age = NoAge THEN list
    ELSE SelectSeq(list, LAMBDA a : ~(now - Timestamp(a) > AgeSeconds(age)))

\* get_band_activity, line 1387: sort by offset
ActSorted(list) == SortSeq(list, LAMBDA a, b : Offset(a) < Offset(b))

\* get_band_activity, lines 1375-1388, after watch() returned: copy(), pop(),
\* append() and sort() are called on the object watch() returned, which is the
\* list held in state['band_activity'] unless the receive path has stored
\* another since; called on None they raise AttributeError
ActFilter(w, age) ==
    /\ wpc[w] = "returned"
    /\ witem[w] = "band_activity"
    /\ IF wret[w] = None
       THEN /\ araised' = TRUE
            /\ UNCHANGED state
       ELSE /\ UNCHANGED araised
            /\ state' = IF afresh THEN state
                        ELSE [state EXCEPT !["band_activity"] =
                                               ActSorted(ActKept(wret[w], age))]
    /\ adone' = adone + 1
    /\ afresh' = FALSE
    /\ wpc' = [wpc EXCEPT ![w] = "idle"]
    /\ last_state' = [last_state EXCEPT ![w] = None]
    /\ wret' = [wret EXCEPT ![w] = None]
    /\ wg' = [wg EXCEPT ![w] = NoHistory]
    /\ UNCHANGED <<online, extVars, holdVars, called, hbVars, rejected, rxVars, winVars, envVars, monVars, spotVars,
                   watching, rx_queue, rx_state, txVars, msgVars, witem>>

\* ------------------------------------------------------- client operations

Created == {m \in Msgs : spc[m] # "none"}

\* send_message, lines 670-671, hands a TX_SEND_MESSAGE to the tracker first
ToTracker(m) == mtype[m] = TX_SEND_MESSAGE /\ monitor_outgoing

\* the application thread constructs the Message of its next operation
\* (send_message, line 660, for a TX_SEND_MESSAGE; a request such as
\* get_rx_text, lines 1413-1414, otherwise) when the previous one returned
Create(t, v) ==
    /\ Created # Msgs
    /\ \A x \in Msgs : spc[x] \in {"none", "done"}
    /\ LET m == CHOOSE x \in Msgs \ Created : \A y \in Msgs \ Created : x <= y
       IN /\ mtype' = [mtype EXCEPT ![m] = t]
          /\ mvalue' = [mvalue EXCEPT ![m] = v]
          /\ mts' = [mts EXCEPT ![m] = now]
          /\ spc' = [spc EXCEPT ![m] = "created"]
    /\ UNCHANGED <<online, extVars, holdVars, called, hbVars, rejected, actVars, rxVars, winVars, envVars, monVars, spotVars, storeVars, txVars, status,
                   monitor_outgoing, watchVars>>

\* Message.TX_SET_TEXT
TX_SET_TEXT == "TX.SET_TEXT"

\* set_tx_text, lines 1449-1450, after the Message was constructed (lines
\* 1446-1448): sleep, then return get_tx_text(), which returns the stored
\* state (lines 1428-1429); the method makes no call of send
SetTxTextReturn(m) ==
    /\ spc[m] = "created"
    /\ mtype[m] = TX_SET_TEXT
    /\ spc' = [spc EXCEPT ![m] = "done"]
    /\ UNCHANGED <<online, extVars, holdVars, called, hbVars, rejected, actVars, rxVars, winVars, envVars, monVars, spotVars, storeVars, txVars, mtype, status,
                   monitor_outgoing, mts, mvalue, watchVars>>

\* mutant of the early return: the operation goes on after a rejection
RejectFallsThrough(m) == "created"

\* send_message, line 668: return msg
RejectReturns(m) == "done"

\* send_message, lines 663-668 (send_directed_message, 793-798): the hook
\* process_outgoing is set and sets msg.error; the message is given the status
\* FAILED and returned
Reject(m) ==
    /\ spc[m] = "created"
    /\ mtype[m] = TX_SEND_MESSAGE
    /\ m \notin rejected
    /\ rejected' = rejected \cup {m}
    /\ status' = [status EXCEPT ![m] = STATUS_FAILED]
    /\ spc' = [spc EXCEPT ![m] = RejectReturns(m)]
    /\ UNCHANGED <<online, extVars, holdVars, called, hbVars, actVars, rxVars, winVars, envVars, monVars, spotVars,
                   storeVars, txVars, mtype, monitor_outgoing, mts, mvalue, watchVars>>

\* TxMonitor.monitor(), line 100: msg.status = Message.STATUS_QUEUED
Monitor(m) ==
    /\ spc[m] = "created"
    /\ ToTracker(m)
    /\ status' = [status EXCEPT ![m] = STATUS_QUEUED]
    /\ spc' = [spc EXCEPT ![m] = "monitor"]
    /\ UNCHANGED <<online, extVars, holdVars, called, hbVars, rejected, actVars, rxVars, winVars, envVars, monVars, spotVars, storeVars, txVars, mtype,
                   monitor_outgoing, mts, mvalue, watchVars>>

\* TxMonitor.monitor(), lines 102-104: append under the tracker's lock
MonitorAppend(m) ==
    /\ spc[m] = "monitor"
    /\ msg_queue_lock = "free"
    /\ msg_queue' = Append(msg_queue, m)
    /\ spc' = [spc EXCEPT ![m] = "send"]
    /\ UNCHANGED <<online, extVars, holdVars, called, hbVars, rejected, actVars, rxVars, winVars, envVars, spotVars, storeVars, txVars, mtype, status,
                   monitor_outgoing, mts, mvalue, watchVars, msg_queue_lock,
                   msg_max_age, monpc, mon_text, mon_left, mon_cycle>>

\* send(), line 142: msg.status = Message.STATUS_QUEUED
SendStatus(old) == STATUS_QUEUED

Send(m) ==
    /\ spc[m] = (IF ToTracker(m) THEN "send" ELSE "created")
    /\ status' = [status EXCEPT ![m] = SendStatus(status[m])]
    /\ spc' = [spc EXCEPT ![m] = "append"]
    /\ UNCHANGED <<online, extVars, holdVars, called, hbVars, rejected, actVars, rxVars, winVars, envVars, monVars, spotVars, storeVars, txVars, mtype, monitor_outgoing,
                   mts, mvalue, watchVars>>

\* send(), lines 144-146: append under the queue lock
SendAppend(m) ==
    /\ spc[m] = "append"
    /\ tx_queue_lock = "free"
    /\ tx_queue' = Append(tx_queue, m)
    /\ spc' = [spc EXCEPT ![m] = "done"]
    /\ UNCHANGED <<online, extVars, holdVars, called, hbVars, rejected, actVars, tx_skipped, rxVars, winVars, envVars, monVars, spotVars, storeVars, tx_queue_lock, txpc, txcopy, tx_text,
                   force_tx_text, socket, mtype, status, monitor_outgoing, mts, mvalue,
                   watchVars>>

\* ------------------------------------------------------------ dispatcher

\* mutant of the refresh test: the marker is not looked at
TxRefreshesWatched == state["tx_text"] # None

\* _tx, line 272: the condition under which the local tx_text is refreshed
TxRefreshes == watching # "tx_text" /\ state["tx_text"] # None

TxCheck ==
    /\ online
    /\ txpc = "top"
    /\ txpc' = IF TxRefreshes THEN "read" ELSE "lock"
    /\ tx_skipped' = (watching = "tx_text")
    /\ UNCHANGED <<online, extVars, holdVars, called, hbVars, rejected, actVars, rxVars, winVars, envVars, monVars, spotVars, storeVars, tx_queue, tx_queue_lock, txcopy, tx_text,
                   force_tx_text, socket, msgVars, watchVars>>

\* _tx, lines 273-277: a second read of state['tx_text']; None has no strip(),
\* and the AttributeError ends the thread
TxRead ==
    /\ txpc = "read"
    /\ IF state["tx_text"] = None
       THEN /\ txpc' = "dead"
            /\ UNCHANGED <<tx_text, force_tx_text, tx_seen>>
       ELSE /\ txpc' = "lock"
            /\ IF Len(Strip(state["tx_text"])) > 0
               THEN tx_text' = TRUE /\ force_tx_text' = FALSE /\ tx_seen' = "busy"
               ELSE /\ tx_text' = FALSE
                    /\ tx_seen' = (IF tx_seen = "busy" THEN "clear" ELSE tx_seen)
                    /\ UNCHANGED force_tx_text
    /\ UNCHANGED <<online, extVars, tx_pass, called, hbVars, rejected, actVars, tx_skipped, rxVars, winVars, envVars, monVars, spotVars, storeVars, tx_queue, tx_queue_lock, txcopy, socket,
                   msgVars, watchVars>>

\* mutant of the visiting order: the newest message first
QueueNewestFirst(q) == [i \in 1..Len(q) |-> q[Len(q) + 1 - i]]

\* _tx, line 281: self._tx_queue.copy(), visited from its first element
QueueCopy(q) == q

\* _tx, lines 279-281: take the lock and copy the queue
TxAcquire ==
    /\ txpc = "lock"
    /\ tx_queue_lock = "free"
    /\ tx_queue_lock' = "tx"
    /\ txcopy' = QueueCopy(tx_queue)
    /\ txpc' = "loop"
    /\ tx_skipped' = FALSE
    /\ tx_pass' = 0
    /\ UNCHANGED <<online, extVars, tx_seen, called, hbVars, rejected, actVars, rxVars, winVars, envVars, monVars, spotVars, storeVars, tx_queue, tx_text, force_tx_text, socket,
                   msgVars, watchVars>>

\* mutant of the hold: a busy modem holds every kind of message
TxHoldsAnyKind(m) == tx_text \/ force_tx_text

\* _tx, line 284: the message is held
TxHolds(m) == mtype[m] = TX_SEND_MESSAGE /\ (tx_text \/ force_tx_text)

\* mutant of the force hold: a write leaves the flag as it is
TxForcesNothing(m) == force_tx_text

\* _tx, lines 302-303: force_tx_text after the write of m
TxForces(m) == force_tx_text \/ mtype[m] = TX_SEND_MESSAGE

\* mutant of the removal: the written message stays in the queue
RemoveNothing(q, m) == q

\* list.remove
Remove(q, m) == SelectSeq(q, LAMBDA x : x # m)

\* _tx, lines 284-305: one message of the copy
TxStep ==
    /\ txpc = "loop"
    /\ txcopy # <<>>
    /\ LET m == Head(txcopy)
       IN IF TxHolds(m)
          THEN UNCHANGED <<tx_queue, socket, force_tx_text, holdVars>>
          ELSE /\ socket' = Append(socket, m)
               /\ tx_queue' = Remove(tx_queue, m)
               /\ force_tx_text' = TxForces(m)
               /\ tx_seen' = (IF mtype[m] = TX_SEND_MESSAGE THEN "none" ELSE tx_seen)
               /\ tx_pass' = tx_pass + (IF mtype[m] = TX_SEND_MESSAGE THEN 1 ELSE 0)
    /\ txcopy' = Tail(txcopy)
    /\ UNCHANGED <<online, extVars, called, hbVars, rejected, actVars, tx_skipped, rxVars, winVars, envVars, monVars, spotVars, storeVars, tx_queue_lock, txpc, tx_text, msgVars, watchVars>>

\* _tx, line 298: sendall raises (the connection is lost); _tx has no try, so
\* the error ends the thread, which holds the queue lock
TxWriteFails ==
    /\ txpc = "loop"
    /\ txcopy # <<>>
    /\ ~TxHolds(Head(txcopy))
    /\ txpc' = "dead"
    /\ UNCHANGED <<online, extVars, holdVars, called, hbVars, rejected, actVars, tx_skipped, rxVars, winVars, envVars, monVars, spotVars, storeVars, tx_queue,
                   tx_queue_lock, txcopy, tx_text, force_tx_text, socket, msgVars,
                   watchVars>>

\* _tx, lines 307-308: release the lock and sleep
TxRelease ==
    /\ txpc = "loop"
    /\ txcopy = <<>>
    /\ tx_queue_lock' = "free"
    /\ txpc' = "top"
    /\ tx_pass' = 0
    /\ UNCHANGED <<online, extVars, tx_seen, called, hbVars, rejected, actVars, tx_skipped, rxVars, winVars, envVars, monVars, spotVars, storeVars, tx_queue, txcopy, tx_text, force_tx_text,
                   socket, msgVars, watchVars>>

\* ---------------------------------------------------------- liveness probe

\* the request the probe makes
STATION_GET_CALLSIGN == "STATION.GET_CALLSIGN"

\* JS8Call._socket_heartbeat_delay, in seconds
HeartbeatDelay == 300

\* mutant of the probe's test: due as soon as the delay has passed
HbDueAtDelay == Time >= last_rx_timestamp + HeartbeatDelay

\* _hb, lines 248-249: time.time() > self._last_rx_timestamp + delay
HbDue == Time > last_rx_timestamp + HeartbeatDelay

\* _hb, lines 247-249: the loop test and the test of the time
HbTest ==
    /\ online
    /\ hbpc = "test"
    /\ hbpc' = IF HbDue THEN "set" ELSE "sleep"
    /\ UNCHANGED <<online, extVars, holdVars, called, connected, last_rx_timestamp, rejected, actVars, rxVars, winVars,
                   envVars, monVars, spotVars, storeVars, txVars, msgVars, watchVars>>

\* _hb, line 250: self.connected = False
HbSet ==
    /\ hbpc = "set"
    /\ connected' = FALSE
    /\ hbpc' = "send"
    /\ UNCHANGED <<online, extVars, holdVars, called, last_rx_timestamp, rejected, actVars, rxVars, winVars, envVars,
                   monVars, spotVars, storeVars, txVars, msgVars, watchVars>>

\* _hb, lines 251-253: a STATION_GET_CALLSIGN message is built and handed to
\* send(), which appends it to the tx queue under the queue lock
HbSend ==
    /\ hbpc = "send"
    /\ Created # Msgs
    /\ tx_queue_lock = "free"
    /\ LET m == CHOOSE x \in Msgs \ Created : \A y \in Msgs \ Created : x <= y
       IN /\ mtype' = [mtype EXCEPT ![m] = STATION_GET_CALLSIGN]
          /\ mvalue' = [mvalue EXCEPT ![m] = None]
          /\ mts' = [mts EXCEPT ![m] = now]
          /\ status' = [status EXCEPT ![m] = SendStatus(status[m])]
          /\ spc' = [spc EXCEPT ![m] = "done"]
          /\ tx_queue' = Append(tx_queue, m)
    /\ hbpc' = "sleep"
    /\ UNCHANGED <<online, extVars, holdVars, called, connected, last_rx_timestamp, rejected, actVars, rxVars, winVars,
                   envVars, monVars, spotVars, storeVars, tx_skipped, tx_queue_lock, txpc,
                   txcopy, tx_text, force_tx_text, socket, monitor_outgoing, watchVars>>

\* _hb, line 255: time.sleep(1)
HbSleep ==
    /\ hbpc = "sleep"
    /\ hbpc' = "test"
    /\ UNCHANGED <<online, extVars, holdVars, called, connected, last_rx_timestamp, rejected, actVars, rxVars, winVars,
                   envVars, monVars, spotVars, storeVars, txVars, msgVars, watchVars>>

\* ---------------------------------------------------------- status tracker

\* msg.destination of a directed message
Destination == <<"D">>

\* _monitor, line 134: msg.destination + '  ' + msg.value.strip()
MsgValue(m) == Destination \o <<Space, Space>> \o Strip(mvalue[m])

\* _monitor, lines 118-119: the tx text without the leading callsign
Normalised(t) == IF HasColon(t) THEN StripChars(SplitColon1(t), {Space, EOM}) ELSE t

\* the tx cycles a message may wait (line 127)
MaxCycles == 30

\* the tracked messages whose age exceeds 30 windows of w seconds
Overdue(w) ==
    {m \in {msg_queue[i] : i \in 1..Len(msg_queue)} : now - mts[m] > MaxCycles * w}

\* _monitor, lines 109-127: read the tx text; None ends the cycle, otherwise the
\* text is normalised and the maximum age set from the window duration w that
\* get_tx_window_duration reports
MonRead(w) ==
    /\ online
    /\ monpc = "sleep"
    /\ IF state["tx_text"] = None
       THEN /\ mon_text' = None
            /\ mon_cycle' = [overdue |-> Overdue(w), done |-> TRUE]
            /\ UNCHANGED <<monpc, msg_max_age, tx_window>>
       ELSE /\ mon_text' = Normalised(state["tx_text"])
            /\ tx_window' = w
            /\ msg_max_age' = tx_window' * MaxCycles
            /\ monpc' = "lock"
            /\ mon_cycle' = [overdue |-> Overdue(w), done |-> FALSE]
    /\ UNCHANGED <<online, extVars, holdVars, called, hbVars, rejected, actVars, rxVars, winVars, now, spotVars, storeVars, txVars, msgVars, watchVars,
                   msg_queue, msg_queue_lock, mon_left>>

\* _monitor, lines 129-132: take the lock; the loop runs len(queue) times
MonAcquire ==
    /\ monpc = "lock"
    /\ msg_queue_lock = "free"
    /\ msg_queue_lock' = "monitor"
    /\ mon_left' = Len(msg_queue)
    /\ monpc' = "loop"
    /\ UNCHANGED <<online, extVars, holdVars, called, hbVars, rejected, actVars, rxVars, winVars, envVars, spotVars, storeVars, txVars, msgVars, watchVars,
                   msg_queue, msg_max_age, mon_text, mon_cycle>>

\* _monitor, line 153: time.time() > msg.timestamp + self._msg_max_age
TooOld(m) == now > mts[m] + msg_max_age

\* mutant of the order of the tests: the age is tested first
NextStatusAgeFirst(m) ==
    IF TooOld(m) THEN STATUS_FAILED
    ELSE IF MsgValue(m) = mon_text /\ status[m] = STATUS_QUEUED THEN STATUS_SENDING
    ELSE IF MsgValue(m) # mon_text /\ status[m] = STATUS_SENDING THEN STATUS_SENT
    ELSE status[m]

\* _monitor, lines 137-160: the status of message m after its turn
NextStatus(m) ==
    IF MsgValue(m) = mon_text /\ status[m] = STATUS_QUEUED THEN STATUS_SENDING
    ELSE IF MsgValue(m) # mon_text /\ status[m] = STATUS_SENDING THEN STATUS_SENT
    ELSE IF TooOld(m) THEN STATUS_FAILED
    ELSE status[m]

\* _monitor, lines 151 and 160: the message is dropped from the queue
Dropped(m) ==
    \/ MsgValue(m) # mon_text /\ status[m] = STATUS_SENDING
    \/ ~(MsgValue(m) = mon_text /\ status[m] = STATUS_QUEUED) /\ TooOld(m)

\* _monitor, lines 141-142, 148-149, 157-158: the calls of the status change
\* callback (one is registered) in the turn of message m, one in each branch
Calls(m) ==
    IF MsgValue(m) = mon_text /\ status[m] = STATUS_QUEUED THEN 1
    ELSE IF MsgValue(m) # mon_text /\ status[m] = STATUS_SENDING THEN 1
    ELSE IF TooOld(m) THEN 1
    ELSE 0

\* _monitor, lines 133-163: one turn of the loop
MonStep ==
    /\ monpc = "loop"
    /\ mon_left > 0
    /\ LET m == Head(msg_queue)
       IN /\ status' = [status EXCEPT ![m] = NextStatus(m)]
          /\ called' = [msg |-> m, n |-> Calls(m)]
          /\ msg_queue' = IF Dropped(m) THEN Tail(msg_queue)
                           ELSE Append(Tail(msg_queue), m)
    /\ mon_left' = mon_left - 1
    /\ UNCHANGED <<online, extVars, holdVars, hbVars, rejected, actVars, rxVars, winVars, envVars, spotVars, storeVars, txVars, watchVars, mtype, spc,
                   monitor_outgoing, mts, mvalue, msg_queue_lock, msg_max_age, monpc,
                   mon_text, mon_cycle>>

\* _monitor, lines 153-158, with an observer that retries: the message has
\* timed out, its status is set to FAILED and the callback is called in the
\* tracker's thread, inside the locked loop
MonStepRetry ==
    /\ monpc = "loop"
    /\ mon_left > 0
    /\ NextStatus(Head(msg_queue)) = STATUS_FAILED
    /\ LET m == Head(msg_queue)
       IN /\ status' = [status EXCEPT ![m] = STATUS_FAILED]
          /\ called' = [msg |-> m, n |-> Calls(m)]
          /\ msg_queue' = Tail(msg_queue)
    /\ monpc' = "observer"
    /\ UNCHANGED <<online, extVars, holdVars, hbVars, rejected, actVars, rxVars, winVars, envVars, spotVars, storeVars, txVars, watchVars, mtype, spc,
                   monitor_outgoing, mts, mvalue, msg_queue_lock, msg_max_age, mon_left,
                   mon_text, mon_cycle>>

\* the observer calls monitor(msg), lines 100-104: the status is set to QUEUED
\* and the thread acquires _msg_queue_lock, a threading.Lock (line 73): it goes
\* on when the lock is free and waits while it is held
MonObserver ==
    /\ monpc \in {"observer", "blocked"}
    /\ status' = [status EXCEPT ![called.msg] = STATUS_QUEUED]
    /\ IF msg_queue_lock = "free"
       THEN /\ msg_queue' = Append(msg_queue, called.msg)
            /\ mon_left' = mon_left - 1
            /\ monpc' = "loop"
       ELSE /\ monpc' = "blocked"
            /\ UNCHANGED <<msg_queue, mon_left>>
    /\ UNCHANGED <<online, extVars, holdVars, called, hbVars, rejected, actVars, rxVars, winVars, envVars, spotVars, storeVars, txVars, watchVars, mtype, spc,
                   monitor_outgoing, mts, mvalue, msg_queue_lock, msg_max_age,
                   mon_text, mon_cycle>>

\* _monitor, line 165: release the lock; the cycle is over
MonRelease ==
    /\ monpc = "loop"
    /\ mon_left = 0
    /\ msg_queue_lock' = "free"
    /\ monpc' = "sleep"
    /\ mon_cycle' = [mon_cycle EXCEPT !.done = TRUE]
    /\ UNCHANGED <<online, extVars, holdVars, called, hbVars, rejected, actVars, rxVars, winVars, envVars, spotVars, storeVars, txVars, msgVars, watchVars,
                   msg_queue, msg_max_age, mon_text, mon_left>>

\* ------------------------------------------------------ heartbeat monitor

\* the state of the session outside the monitors modelled on their own
baseVars ==
    <<online, holdVars, called, hbVars, rejected, actVars, rxVars, winVars, envVars, monVars,
      spotVars, storeVars, txVars, msgVars, watchVars>>

\* enable(interval) with interval = 1: _monitor multiplies it by 60 (line 79)
HbmInterval == 1 * 60

\* enable, lines 56-63, and _monitor, lines 79-80: the thread starts and notes
\* the time
HbmEnable ==
    /\ ~hb_enabled
    /\ hbmpc = "idle"
    /\ hb_enabled' = TRUE
    /\ hbmpc' = "outer"
    /\ last_hb_timestamp' = Time
    /\ UNCHANGED <<baseVars, segVars, smVars, hb_paused, hb_sent>>

\* disable, line 67
HbmDisable ==
    /\ hb_enabled
    /\ hb_enabled' = FALSE
    /\ UNCHANGED <<baseVars, segVars, smVars, hb_paused, hbmpc, last_hb_timestamp, hb_sent>>

\* pause, line 71
HbmPause ==
    /\ ~hb_paused
    /\ hb_paused' = TRUE
    /\ UNCHANGED <<baseVars, segVars, smVars, hb_enabled, hbmpc, last_hb_timestamp, hb_sent>>

\* resume, line 75
HbmResume ==
    /\ hb_paused
    /\ hb_paused' = FALSE
    /\ UNCHANGED <<baseVars, segVars, smVars, hb_enabled, hbmpc, last_hb_timestamp, hb_sent>>

\* _monitor, line 83: the interval has not elapsed yet
HbmWaits == last_hb_timestamp + HbmInterval > Time

\* _monitor, line 82: the test of the outer loop
HbmOuter ==
    /\ hbmpc = "outer"
    /\ hbmpc' = (IF hb_enabled THEN "inner" ELSE "stopped")
    /\ UNCHANGED <<baseVars, segVars, smVars, hb_enabled, hb_paused, last_hb_timestamp, hb_sent>>

\* _monitor, line 83: the test of the inner loop
HbmInner ==
    /\ hbmpc = "inner"
    /\ hbmpc' = (IF HbmWaits THEN "sleep" ELSE "send")
    /\ UNCHANGED <<baseVars, segVars, smVars, hb_enabled, hb_paused, last_hb_timestamp, hb_sent>>

\* _monitor, lines 84-88: after the sleep, return if the monitor was disabled
HbmSleep ==
    /\ hbmpc = "sleep"
    /\ hbmpc' = (IF hb_enabled THEN "inner" ELSE "stopped")
    /\ UNCHANGED <<baseVars, segVars, smVars, hb_enabled, hb_paused, last_hb_timestamp, hb_sent>>

\* _monitor, line 90: self.paused is read; __init__ sets self._paused (line 48)
\* and the class defines no attribute named paused, so the read raises
\* AttributeError
HbmPausedRaises == TRUE

\* _monitor, lines 90-92: the heartbeat is sent unless the monitor is paused;
\* an error ends the thread
HbmSend ==
    /\ hbmpc = "send"
    /\ IF HbmPausedRaises
       THEN /\ hbmpc' = "dead"
            /\ UNCHANGED <<last_hb_timestamp, hb_sent>>
       ELSE /\ hbmpc' = "outer"
            /\ hb_sent' = (IF hb_paused THEN hb_sent ELSE hb_sent + 1)
            /\ last_hb_timestamp' = (IF hb_paused THEN last_hb_timestamp ELSE Time)
    /\ UNCHANGED <<baseVars, segVars, smVars, hb_enabled, hb_paused>>

\* ----------------------------------------------------------- spot monitor

\* callback functions registered of each kind, and calls of _callback
MaxCallbacks == 1
MaxSmCalls == 2

\* the spots of the model: origin and destination of the spotted message
WatchedStation == "A"
WatchedGroup == "@G"
NewSpots ==
    {[origin |-> o, destination |-> d] : o \in {"A", "B"}, d \in {"@G", "C"}}

\* client.callback.register_spots, register_station_spot and
\* register_group_spot: one more function of the kind k
SmRegister(k) ==
    /\ spot_callbacks[k] < MaxCallbacks
    /\ spot_callbacks' = [spot_callbacks EXCEPT ![k] = @ + 1]
    /\ UNCHANGED <<baseVars, segVars, hbmVars, station_watch_list, group_watch_list, spot_calls>>

\* add_station_watch, lines 180-181
AddStationWatch(station) ==
    /\ station_watch_list' = station_watch_list \cup {station}
    /\ UNCHANGED <<baseVars, segVars, hbmVars, spot_callbacks, group_watch_list, spot_calls>>

\* add_group_watch, lines 189-193, with a designator that begins with '@'
AddGroupWatch(group) ==
    /\ group_watch_list' = group_watch_list \cup {group}
    /\ UNCHANGED <<baseVars, segVars, hbmVars, spot_callbacks, station_watch_list, spot_calls>>

\* _callback, lines 263 and 269-286: the loop over the spots is inside the
\* test of the general spots callbacks
SmLoopRuns == spot_callbacks["spots"] > 0

\* n copies of x
RECURSIVE Copies(_, _)
Copies(n, x) == IF n = 0 THEN <<>> ELSE <<x>> \o Copies(n - 1, x)

\* _callback, lines 270-277: the threads started for one spot, one for each
\* station spot callback
StationThreads(spot) ==
    IF spot_callbacks["station"] > 0 /\ spot.origin \in station_watch_list
    THEN Copies(spot_callbacks["station"], spot) ELSE <<>>

\* _callback, lines 279-286: the same for the group spot callbacks
GroupThreads(spot) ==
    IF spot_callbacks["group"] > 0 /\ spot.destination \in group_watch_list
    THEN Copies(spot_callbacks["group"], spot) ELSE <<>>

\* _callback, line 269: the threads started for each spot of the list, in order
RECURSIVE StationAll(_)
StationAll(list) ==
    IF list = <<>> THEN <<>> ELSE StationThreads(Head(list)) \o StationAll(Tail(list))

RECURSIVE GroupAll(_)
GroupAll(list) ==
    IF list = <<>> THEN <<>> ELSE GroupThreads(Head(list)) \o GroupAll(Tail(list))

\* _monitor, lines 306-307, and _callback(new_spots), lines 263-286
SmCallback(new) ==
    /\ spot_calls.n < MaxSmCalls
    /\ spot_calls' =
         [n |-> spot_calls.n + 1,
          new |-> new,
          spots |-> IF spot_callbacks["spots"] > 0 THEN spot_callbacks["spots"] ELSE 0,
          station |-> IF SmLoopRuns THEN StationAll(new) ELSE <<>>,
          group |-> IF SmLoopRuns THEN GroupAll(new) ELSE <<>>]
    /\ UNCHANGED <<baseVars, segVars, hbmVars, spot_callbacks, station_watch_list, group_watch_list>>

\* ------------------------------------------------------------ environment

\* the clock advances
Tick(d, limit) ==
    /\ now + d <= limit
    /\ now' = now + d
    /\ UNCHANGED <<online, extVars, holdVars, called, hbVars, rejected, actVars, rxVars, winVars, tx_window, monVars, spotVars, storeVars, txVars, msgVars,
                   watchVars>>

\* ------------------------------------------------------- specifications

\* JS8Call.max_spots after construction
DefaultMaxSpots == 1000

\* the stations heard in the model
Stations == {<<"A">>, <<"B">>}

\* the state after JS8Call.__init__, TxMonitor.__init__ and Client.__init__,
\* but for max_spots
InitBase ==
    /\ online = TRUE
    /\ state = [k \in StateKeys |-> None]
    /\ rx_state = [k \in StateKeys |-> None]
    /\ watching = None
    /\ rx_queue = <<>>
    /\ tx_queue = <<>>
    /\ tx_queue_lock = "free"
    /\ txpc = "top"
    /\ txcopy = <<>>
    /\ tx_text = FALSE
    /\ force_tx_text = FALSE
    /\ socket = <<>>
    /\ tx_skipped = FALSE
    /\ mtype = [m \in Msgs |-> TX_SEND_MESSAGE]
    /\ status = [m \in Msgs |-> STATUS_CREATED]
    /\ spc = [m \in Msgs |-> "none"]
    /\ wpc = [w \in Watchers |-> "idle"]
    /\ witem = [w \in Watchers |-> "tx_text"]
    /\ last_state = [w \in Watchers |-> None]
    /\ wret = [w \in Watchers |-> None]
    /\ wg = [w \in Watchers |-> NoHistory]
    /\ mts = [m \in Msgs |-> 0]
    /\ mvalue = [m \in Msgs |-> None]
    /\ now = 0
    /\ tx_window = FastWindow
    /\ msg_queue = <<>>
    /\ msg_queue_lock = "free"
    /\ msg_max_age = FastWindow * MaxCycles
    /\ monpc = "sleep"
    /\ mon_text = None
    /\ mon_left = 0
    /\ mon_cycle = [overdue |-> {}, done |-> FALSE]
    /\ spots = <<>>
    /\ recent_spots = <<>>
    /\ spot_log = <<>>
    /\ heard = [who |-> None, cmd |-> None, at |-> -1]
    /\ rxpc = "run"
    /\ rx_msgs = <<>>
    /\ rx_seq = 0
    /\ got = NoMessage
    /\ rx_read = <<>>
    /\ rx_done = <<>>
    /\ last_tx_frame_timestamp = 0
    /\ last_rx_msg_timestamp = 0
    /\ next_window_timestamp = 0
    /\ rx_registered = TRUE
    /\ win_enabled = TRUE
    /\ window_callbacks = 0
    /\ hpc = [p \in Handlers |-> "idle"]
    /\ hts = [p \in Handlers |-> 0]
    /\ stamped = <<NoFrame, NoFrame>>
    /\ adone = 0
    /\ araised = FALSE
    /\ afresh = FALSE
    /\ rejected = {}
    /\ connected = FALSE
    /\ last_rx_timestamp = 0
    /\ hbpc = "test"
    /\ called = [msg |-> 0, n |-> 0]
    /\ tx_seen = "clear"
    /\ tx_pass = 0
    /\ wire = <<>>
    /\ wrote = 0
    /\ hb_enabled = FALSE
    /\ hb_paused = FALSE
    /\ hbmpc = "idle"
    /\ last_hb_timestamp = 0
    /\ hb_sent = 0
    /\ spot_callbacks = [k \in {"spots", "station", "group"} |-> 0]
    /\ station_watch_list = {}
    /\ group_watch_list = {}
    /\ spot_calls = [n |-> 0, new |-> <<>>, spots |-> 0, station |-> <<>>, group |-> <<>>]

\* the state after construction, with the default max_spots
InitCommon == InitBase /\ max_spots = DefaultMaxSpots

\* texts the modem reports in its tx text field
TxTexts == {None, <<Space>>, <<"D", Space, Space, "V">>}

Watch(w) ==
    \/ WatchReset(w)
    \/ WatchPoll(w)
    \/ WatchTimeout(w)
    \/ WatchCheck(w)
    \/ WatchRestore(w)
    \/ WatchClear(w)
    \/ WatchReturn(w)
    \/ WatchDone(w)

\* the dispatcher with send() callers, the receive path and a thread that
\* calls watch('tx_text')
InitTx == InitCommon /\ monitor_outgoing = FALSE

NextTx ==
    \/ \E t \in TxTypes : Create(t, <<"V">>)
    \/ \E m \in Msgs : Send(m)
    \/ \E m \in Msgs : SendAppend(m)
    \/ TxCheck
    \/ TxRead
    \/ TxAcquire
    \/ TxStep
    \/ TxRelease
    \/ \E v \in TxTexts : ProcessMessage(TX_TEXT, v, None)
    \/ GetNextMessage
    \/ WatchCall("w2", "tx_text")
    \/ Watch("w2")

SpecTx == InitTx /\ [][NextTx]_vars

\* values the modem reports for the station grid
GridValues == {None, <<"E", "M">>, <<"F", "N">>}

RxValues(t) == IF t = TX_TEXT THEN TxTexts ELSE GridValues

\* arguments of watch(): two state variables and a name that is none
WatchItems == {"grid", "tx_text", "nosuch"}

\* watch() called by one thread at a time, with the receive path
InitWatch == InitCommon /\ monitor_outgoing = FALSE

NextWatch ==
    \/ \E t \in RxTypes : \E v \in RxValues(t) : ProcessMessage(t, v, None)
    \/ GetNextMessage
    \/ \E item \in WatchItems : WatchCall("w1", item)
    \/ Watch("w1")

SpecWatch == InitWatch /\ [][NextWatch]_vars

\* the clock of the tracker's specification: steps that reach both sides of
\* 30 turbo windows, up to MaxTime
MonTicks == {90, 91}
MaxTime == 182

\* the value of the messages that send_message sends
MsgValues == {<<"V", Space>>}

\* texts of the tx text field: unknown, blank, and a message as the modem
\* shows it (callsign: destination  value EOM)
MonTexts ==
    {None, <<Space>>, <<"K", ":", Space, "D", Space, Space, "V", Space, EOM>>}

\* send_message with the tracker, the receive path and the clock
InitMon == InitCommon /\ monitor_outgoing = TRUE

NextMon ==
    \/ \E v \in MsgValues : Create(TX_SEND_MESSAGE, v)
    \/ \E m \in Msgs : Monitor(m)
    \/ \E m \in Msgs : MonitorAppend(m)
    \/ \E m \in Msgs : Send(m)
    \/ \E m \in Msgs : SendAppend(m)
    \/ \E w \in Windows : MonRead(w)
    \/ MonAcquire
    \/ MonStep
    \/ MonRelease
    \/ \E v \in MonTexts : ProcessMessage(TX_TEXT, v, None)
    \/ GetNextMessage
    \/ \E d \in MonTicks : Tick(d, MaxTime)

SpecMon == InitMon /\ [][NextMon]_vars

\* the clock of the spot store's specification
SpotTicks == {5, 6}
MaxSpotTime == 17

\* spotted messages from the receive path, with the clock
InitSpot == InitCommon /\ monitor_outgoing = FALSE

NextSpot ==
    \/ \E v \in Stations : ProcessMessage(RX_SPOT, v, None)
    \/ \E c \in {None, CMD_SNR} : ProcessMessage(RX_DIRECTED, <<"A">>, c)
    \/ GetNextMessage
    \/ \E d \in SpotTicks : Tick(d, MaxSpotTime)

SpecSpot == InitSpot /\ [][NextSpot]_vars

\* the largest max_spots the application sets in the capacity specification
MaxSpotsCap == 2

\* the spot store with a small max_spots, set by the application before the
\* first message and left unchanged
InitCap ==
    /\ InitBase
    /\ max_spots \in 0..MaxSpotsCap
    /\ monitor_outgoing = FALSE

NextCap ==
    \/ \E v \in Stations : ProcessMessage(RX_SPOT, v, None)
    \/ GetNextMessage
    \/ \E d \in SpotTicks : Tick(d, MaxSpotTime)

SpecCap == InitCap /\ [][NextCap]_vars

\* the frames of the receive loop's specification: state reports, a spotted
\* message and a tx frame, with and without the error symbol in the value
RxFrames ==
    {Frame(STATION_GRID, <<"E", "M">>, None), Frame(STATION_GRID, <<"E", ERR>>, None),
     Frame(RX_SPOT, <<"A">>, None), Frame(RX_SPOT, <<ERR, "A">>, None),
     Frame(TX_FRAME, None, None), Frame(TX_FRAME, <<ERR>>, None)}

\* the socket reads: one or two frames
RxBatches == {<<f>> : f \in RxFrames} \cup {<<f, g>> : f, g \in RxFrames}

\* the clock of the receive loop's specification
MaxRxTime == 2

\* the receive loop with the consumer of the queue and the clock
InitRx == InitCommon /\ monitor_outgoing = FALSE

NextRx ==
    \/ \E b \in RxBatches : RxRecv(b)
    \/ RxStep
    \/ GetNextMessage
    \/ GetNextNone
    \/ Tick(1, MaxRxTime)

SpecRx == InitRx /\ [][NextRx]_vars

\* frames the modem writes in the byte stream's specification
MaxSegFrames == 2

\* the byte that ends a frame
NL == "\n"

\* the wire form of a message: one line of text between braces that holds the
\* type and the value
TypeCode(t) == IF t = STATION_GRID THEN "g" ELSE "s"
Encode(f) == <<"{", TypeCode(f.type)>> \o f.value \o <<"}">>

\* the frames the modem writes: a state report and a spotted message
SegFrames == {Frame(STATION_GRID, <<"E", "M">>, None), Frame(RX_SPOT, <<"A">>, None)}

\* _rx, line 348: data_str.split('\n')
RECURSIVE SplitNL(_)
SplitNL(s) ==
    IF \A i \in 1..Len(s) : s[i] # NL
    THEN <<s>>
    ELSE LET i == CHOOSE i \in 1..Len(s) : s[i] = NL /\ \A j \in 1..(i - 1) : s[j] # NL
         IN <<SubSeq(s, 1, i - 1)>> \o SplitNL(SubSeq(s, i + 1, Len(s)))

\* _rx, lines 355-359: Message().parse(msg_str) returns a message for the text
\* of a whole frame and raises for any other text
Parses(piece) == \E f \in SegFrames : Encode(f) = piece
Parse(piece) == CHOOSE f \in SegFrames : Encode(f) = piece

\* _rx, lines 350-359: the pieces of one read that are not empty and parse
RECURSIVE Decoded(_)
Decoded(pieces) ==
    IF pieces = <<>> THEN <<>>
    ELSE IF Len(Head(pieces)) > 0 /\ Parses(Head(pieces))
         THEN <<Parse(Head(pieces))>> \o Decoded(Tail(pieces))
         ELSE Decoded(Tail(pieces))

\* the modem writes the frame f to the connection
SegWrite(f) ==
    /\ wrote < MaxSegFrames
    /\ wire' = wire \o Encode(f) \o <<NL>>
    /\ wrote' = wrote + 1
    /\ UNCHANGED <<online, hbmVars, smVars, holdVars, called, hbVars, rejected, actVars, rxVars, winVars, envVars, monVars, spotVars,
                   storeVars, txVars, msgVars, watchVars>>

\* _rx, lines 323-348: data = b'' and one recv() that returns the first k bytes
\* of those waiting; the text is split and lines 344-345 note the time and set
\* connected; nothing of data is kept for the next iteration
SegRecv(k) ==
    /\ online
    /\ rxpc = "run"
    /\ rx_msgs = <<>>
    /\ k \in 1..Len(wire)
    /\ LET batch == Decoded(SplitNL(SubSeq(wire, 1, k)))
       IN /\ rx_msgs' = batch
          /\ rx_read' = batch
    /\ rx_done' = <<>>
    /\ wire' = SubSeq(wire, k + 1, Len(wire))
    /\ last_rx_timestamp' = Time
    /\ connected' = TRUE
    /\ UNCHANGED <<online, wrote, hbmVars, smVars, holdVars, called, hbpc, rejected, actVars, rxpc, rx_seq, got, winVars, envVars, monVars, spotVars,
                   storeVars, txVars, msgVars, watchVars>>

\* the sizes of a socket read
SegReads == 1..((MaxSegFrames * 5) + 1)

\* the receive loop on a byte stream that the modem writes frame by frame and
\* the socket delivers in reads of any size
InitSeg == InitCommon /\ monitor_outgoing = FALSE

NextSeg ==
    \/ \E f \in SegFrames : SegWrite(f)
    \/ \E k \in SegReads : SegRecv(k)
    \/ RxStep
    \/ GetNextMessage

SpecSeg == InitSeg /\ [][NextSeg]_vars

\* the socket reads of the failure specification: a tx text report or a tx
\* frame
FailBatches ==
    {<<Frame(TX_TEXT, <<Space>>, None)>>, <<Frame(TX_TEXT, <<"V">>, None)>>,
     <<Frame(TX_FRAME, None, None)>>}

\* the dispatcher on a socket whose writes can fail, with send() callers and
\* the receive loop
InitFail == InitCommon /\ monitor_outgoing = FALSE

NextFail ==
    \/ \E t \in TxTypes : Create(t, <<"V">>)
    \/ \E m \in Msgs : Send(m)
    \/ \E m \in Msgs : SendAppend(m)
    \/ TxCheck
    \/ TxRead
    \/ TxAcquire
    \/ TxStep
    \/ TxWriteFails
    \/ TxRelease
    \/ \E b \in FailBatches : RxRecv(b)
    \/ RxStep
    \/ GetNextMessage

SpecFail == InitFail /\ [][NextFail]_vars

\* the clock of the window monitor's specification
WinTick == 3
MaxWinTime == 12

\* the window monitor with the threads that deliver tx frames and rx messages
\* to it, its timer, the clock and the stop of the session
InitWin == InitCommon /\ monitor_outgoing = FALSE

NextWin ==
    \/ \E h \in Handlers : TxFrameCall(h)
    \/ \E h \in Handlers : \E w \in Windows : TxFrameStamp(h, w)
    \/ \E h \in Handlers : TxFrameStop(h)
    \/ \E h \in Handlers : RxMsgCall(h)
    \/ \E h \in Handlers : RxMsgCheck(h)
    \/ \E h \in Handlers : \E w \in Windows : RxMsgTest(h, w)
    \/ \E h \in Handlers : RxMsgWrite(h)
    \/ \E w \in Windows : WinMonitor(w)
    \/ Tick(WinTick, MaxWinTime)
    \/ Stop

SpecWin == InitWin /\ [][NextWin]_vars

\* the window monitor whose timer thread keeps running: it sleeps 0.01 s
\* between iterations (line 188), far less than a window
SpecRoll == InitWin /\ [][NextWin]_vars /\ WF_vars(\E w \in Windows : WinMonitor(w))

\* watch() called by two threads at once, with the receive path
InitWatch2 == InitCommon /\ monitor_outgoing = FALSE

NextWatch2 ==
    \/ ProcessMessage(TX_TEXT, <<"D", Space, Space, "V">>, None)
    \/ ProcessMessage(STATION_GRID, <<"E", "M">>, None)
    \/ GetNextMessage
    \/ \E w \in Watchers : \E item \in {"grid", "tx_text"} : WatchCall(w, item)
    \/ \E w \in Watchers : Watch(w)

SpecWatch2 == InitWatch2 /\ [][NextWatch2]_vars

\* lists the modem reports as band activity
ActLists == {<<>>, <<"a", "b">>}

\* the ages get_band_activity is called with, in minutes
Ages == {NoAge, 0}

\* the thread that calls get_band_activity
Asker == "w2"

\* get_band_activity, lines 1370-1371: the request is built when the previous
\* query has ended
ActCreate ==
    /\ Cardinality(Created) = adone
    /\ Create(RX_GET_BAND_ACTIVITY, None)

\* get_band_activity, lines 1372-1373: watch() is called when send() returned
ActWatch ==
    /\ Cardinality({m \in Msgs : spc[m] = "done"}) = adone + 1
    /\ WatchCall(Asker, "band_activity")

\* the modem answers each request it has been written with one response
ActResponse(v) ==
    /\ rx_seq < Len(socket)
    /\ RxRecv(<<Frame(RX_BAND_ACTIVITY, v, None)>>)

\* the modem reports its tx text, which is empty, once
ActTxText ==
    /\ state["tx_text"] = None
    /\ ProcessMessage(TX_TEXT, <<Space>>, None)

\* get_band_activity() called by one thread, with the dispatcher, the modem and
\* the receive loop
InitAct == InitCommon /\ monitor_outgoing = FALSE

NextAct ==
    \/ ActCreate
    \/ \E m \in Msgs : Send(m)
    \/ \E m \in Msgs : SendAppend(m)
    \/ TxCheck
    \/ TxRead
    \/ TxAcquire
    \/ TxStep
    \/ TxRelease
    \/ \E v \in ActLists : ActResponse(v)
    \/ ActTxText
    \/ RxStep
    \/ GetNextMessage
    \/ ActWatch
    \/ WatchReset(Asker)
    \/ WatchPoll(Asker)
    \/ WatchTimeout(Asker)
    \/ WatchCheck(Asker)
    \/ WatchRestore(Asker)
    \/ WatchClear(Asker)
    \/ WatchReturn(Asker)
    \/ \E age \in Ages : ActFilter(Asker, age)

SpecAct == InitAct /\ [][NextAct]_vars

\* send_message with a process_outgoing hook that rejects some messages, the
\* tracker's intake, the dispatcher and the receive path
InitOut == InitCommon /\ monitor_outgoing = TRUE

NextOut ==
    \/ Create(TX_SEND_MESSAGE, <<"V">>)
    \/ \E m \in Msgs : Reject(m)
    \/ \E m \in Msgs : Monitor(m)
    \/ \E m \in Msgs : MonitorAppend(m)
    \/ \E m \in Msgs : Send(m)
    \/ \E m \in Msgs : SendAppend(m)
    \/ TxCheck
    \/ TxRead
    \/ TxAcquire
    \/ TxStep
    \/ TxRelease
    \/ \E v \in TxTexts \ {None} : ProcessMessage(TX_TEXT, v, None)
    \/ GetNextMessage

SpecOut == InitOut /\ [][NextOut]_vars

\* texts the modem reports in its tx text field when it reports one
ProgTexts == TxTexts \ {None}

\* send_message callers, the dispatcher, the modem's tx text reports and the
\* consumer of the rx queue; the threads of the program (the callers inside
\* send(), the dispatcher, the consumer) are scheduled fairly, the modem is not
InitProg == InitCommon /\ monitor_outgoing = FALSE

NextProg ==
    \/ Create(TX_SEND_MESSAGE, <<"V">>)
    \/ \E m \in Msgs : Send(m)
    \/ \E m \in Msgs : SendAppend(m)
    \/ TxCheck
    \/ TxRead
    \/ TxAcquire
    \/ TxStep
    \/ TxRelease
    \/ \E v \in ProgTexts : ProcessMessage(TX_TEXT, v, None)
    \/ GetNextMessage

SpecProg ==
    /\ InitProg
    /\ [][NextProg]_vars
    /\ WF_vars(\E m \in Msgs : Send(m))
    /\ WF_vars(\E m \in Msgs : SendAppend(m))
    /\ WF_vars(TxCheck)
    /\ WF_vars(TxRead)
    /\ WF_vars(TxAcquire)
    /\ WF_vars(TxStep)
    /\ WF_vars(TxRelease)
    /\ WF_vars(GetNextMessage)

\* the clock of the transition relation's specification: steps to both sides
\* of 30 turbo windows
MaxTrackTime == 181
TrackTicks == {180, 181}

\* texts of the tx text field: blank, and a message as the modem shows it
TrackTexts == MonTexts \ {None}

\* send_message with the tracker in turbo mode, the receive path and the clock
InitTrack == InitCommon /\ monitor_outgoing = TRUE

NextTrack ==
    \/ \E v \in MsgValues : Create(TX_SEND_MESSAGE, v)
    \/ \E m \in Msgs : Monitor(m)
    \/ \E m \in Msgs : MonitorAppend(m)
    \/ \E m \in Msgs : Send(m)
    \/ \E m \in Msgs : SendAppend(m)
    \/ MonRead(TurboWindow)
    \/ MonAcquire
    \/ MonStep
    \/ MonRelease
    \/ \E v \in TrackTexts : ProcessMessage(TX_TEXT, v, None)
    \/ GetNextMessage
    \/ \E d \in TrackTicks : Tick(d, MaxTrackTime)

SpecTrack == InitTrack /\ [][NextTrack]_vars

\* send_message with the tracker in turbo mode, the dispatcher, the receive path
\* and the clock
InitSent == InitCommon /\ monitor_outgoing = TRUE

NextSent ==
    \/ \E v \in MsgValues : Create(TX_SEND_MESSAGE, v)
    \/ \E m \in Msgs : Monitor(m)
    \/ \E m \in Msgs : MonitorAppend(m)
    \/ \E m \in Msgs : Send(m)
    \/ \E m \in Msgs : SendAppend(m)
    \/ TxCheck
    \/ TxRead
    \/ TxAcquire
    \/ TxStep
    \/ TxRelease
    \/ MonRead(TurboWindow)
    \/ MonAcquire
    \/ MonStep
    \/ MonRelease
    \/ \E v \in TrackTexts : ProcessMessage(TX_TEXT, v, None)
    \/ GetNextMessage
    \/ \E d \in TrackTicks : Tick(d, MaxTrackTime)

SpecSent == InitSent /\ [][NextSent]_vars

\* send_message with the tracker and an observer that hands a FAILED message to
\* the tracker again, the receive path and the clock
InitRetry == InitCommon /\ monitor_outgoing = TRUE

NextRetry ==
    \/ \E v \in MsgValues : Create(TX_SEND_MESSAGE, v)
    \/ \E m \in Msgs : Monitor(m)
    \/ \E m \in Msgs : MonitorAppend(m)
    \/ \E m \in Msgs : Send(m)
    \/ \E m \in Msgs : SendAppend(m)
    \/ MonRead(TurboWindow)
    \/ MonAcquire
    \/ MonStep
    \/ MonStepRetry
    \/ MonObserver
    \/ MonRelease
    \/ \E v \in TrackTexts : ProcessMessage(TX_TEXT, v, None)
    \/ GetNextMessage
    \/ \E d \in TrackTicks : Tick(d, MaxTrackTime)

SpecRetry == InitRetry /\ [][NextRetry]_vars

\* the lists of new spots the spot monitor finds: one spot or two
SmLists == {<<a>> : a \in NewSpots} \cup {<<a, b>> : a, b \in NewSpots}

\* the spot monitor with the registration of callbacks and the watch lists
InitSm == InitCommon /\ monitor_outgoing = FALSE

NextSm ==
    \/ \E k \in {"spots", "station", "group"} : SmRegister(k)
    \/ AddStationWatch(WatchedStation)
    \/ AddGroupWatch(WatchedGroup)
    \/ \E new \in SmLists : SmCallback(new)

SpecSm == InitSm /\ [][NextSm]_vars

\* set_tx_text and send_message callers with the dispatcher, the modem's tx
\* text reports and the consumer of the rx queue
InitSet == InitCommon /\ monitor_outgoing = FALSE

NextSet ==
    \/ \E t \in {TX_SEND_MESSAGE, TX_SET_TEXT} : Create(t, <<"V">>)
    \/ \E m \in Msgs : SetTxTextReturn(m)
    \/ \E m \in Msgs : mtype[m] = TX_SEND_MESSAGE /\ Send(m)
    \/ \E m \in Msgs : SendAppend(m)
    \/ TxCheck
    \/ TxRead
    \/ TxAcquire
    \/ TxStep
    \/ TxRelease
    \/ \E v \in ProgTexts : ProcessMessage(TX_TEXT, v, None)
    \/ GetNextMessage

SpecSet == InitSet /\ [][NextSet]_vars

\* the clock of the heartbeat monitor's specification and its steps
MaxHbmTime == 120
HbmTicks == {30}

\* the heartbeat monitor with its enable, disable, pause and resume callers and
\* the clock
InitHbm == InitCommon /\ monitor_outgoing = FALSE

NextHbm ==
    \/ HbmEnable
    \/ HbmDisable
    \/ HbmPause
    \/ HbmResume
    \/ HbmOuter
    \/ HbmInner
    \/ HbmSleep
    \/ HbmSend
    \/ \E d \in HbmTicks : Tick(d, MaxHbmTime)

SpecHbm == InitHbm /\ [][NextHbm]_vars

\* the clock of the probe's specification and its steps
MaxHbTime == 302
HbTicks == {150, 151}

\* the socket reads of the probe's specification: a tx text report
HbBatches == {<<Frame(TX_TEXT, <<Space>>, None)>>}

\* the liveness probe with the receive loop, the dispatcher and the clock
InitHb == InitCommon /\ monitor_outgoing = FALSE

NextHb ==
    \/ HbTest
    \/ HbSet
    \/ HbSend
    \/ HbSleep
    \/ \E b \in HbBatches : RxRecv(b)
    \/ RxStep
    \/ GetNextMessage
    \/ TxCheck
    \/ TxRead
    \/ TxAcquire
    \/ TxStep
    \/ TxRelease
    \/ \E d \in HbTicks : Tick(d, MaxHbTime)

SpecHb == InitHb /\ [][NextHb]_vars

\* ------------------------------------------------------------- properties

\* the message a step writes to the socket, if it writes one
Writes(m) == socket' = Append(socket, m)

\* text is in the tx text field (as _tx reads it, lines 272-273)
Transmitting(st) == st["tx_text"] # None /\ Len(Strip(st["tx_text"])) > 0

\* C1: whenever the dispatcher writes a TX_SEND_MESSAGE frame to the socket,
\* the tx_text entry of the state store holds no text at that moment.
C1_SingleFlightHold ==
    [][\A m \in Msgs :
         Writes(m) /\ mtype[m] = TX_SEND_MESSAGE => ~Transmitting(state)]_vars

\* the step in which watch() returns to its caller
Returns(w) == wpc[w] = "ret" /\ wpc'[w] = "returned"

\* no response came during the call: the receive path stored no non-None value
\* in the watched entry, and no None after the rollback
NoResponse(w) == ~wg[w].nonNone /\ ~wg[w].noneLate

C4_TimeoutReturnsNone ==
    [][Returns("w1") /\ NoResponse("w1") => wret'["w1"] = None]_vars

\* C4 as amended: a watch that got no response returns the value the entry held
\* before the call, which is None exactly when the entry was unknown then, and
\* the entry holds that value again.
C4_TimeoutReturnsPrior ==
    [][Returns("w1") /\ NoResponse("w1") =>
         /\ wret'["w1"] = state'[witem["w1"]]
         /\ (wret'["w1"] = None) = (wg["w1"].prior = None)
         /\ (wg["w1"].prior # None => wret'["w1"] = wg["w1"].prior)]_vars

\* C4 witness: a watch on tx_text has returned with no response, and returned
\* the text the entry held before the call.
C4_Witness ==
    /\ wpc["w1"] = "returned"
    /\ witem["w1"] = "tx_text"
    /\ NoResponse("w1")
    /\ wg["w1"].prior # None
    /\ wret["w1"] = wg["w1"].prior

Place(q, m) == CHOOSE i \in 1..Len(q) : q[i] = m

\* C6: when a message is written to the socket, no message of its kind
\* (TX_SEND_MESSAGE, or not) that was appended to the queue before it is still
\* waiting: messages of one kind are written in the order of their enqueuing.
C6_FifoPerKind ==
    [][\A m \in Msgs :
         Writes(m) =>
           \A i \in 1..(Place(tx_queue, m) - 1) :
             (mtype[tx_queue[i]] = TX_SEND_MESSAGE) # (mtype[m] = TX_SEND_MESSAGE)]_vars

\* C6 witness: two TX_SEND_MESSAGE messages have been written.
C6_Witness ==
    \E i, j \in 1..Len(socket) :
      /\ i < j
      /\ mtype[socket[i]] = TX_SEND_MESSAGE
      /\ mtype[socket[j]] = TX_SEND_MESSAGE

\* the dispatcher has visited its whole copy and is about to release the lock
PassEnds == txpc = "loop" /\ txcopy = <<>>

\* C7: at the end of every dispatch pass the queue holds only held
\* TX_SEND_MESSAGE entries, in the order of their enqueuing: every message of
\* another kind that was queued when the pass took its copy has been written.
C7_HeldDoesNotBlock ==
    PassEnds =>
      /\ \A i \in 1..Len(tx_queue) : mtype[tx_queue[i]] = TX_SEND_MESSAGE
      /\ \A i, j \in 1..Len(tx_queue) : i < j => tx_queue[i] < tx_queue[j]

\* C7 witness: a pass ends with a TX_SEND_MESSAGE held in the queue and a
\* message of another kind, enqueued after it, written.
C7_Witness ==
    /\ PassEnds
    /\ \E i \in 1..Len(tx_queue) : \E j \in 1..Len(socket) :
         /\ mtype[socket[j]] # TX_SEND_MESSAGE
         /\ tx_queue[i] < socket[j]

\* the messages whose monitor() call has returned
Monitored == {m \in Msgs : ToTracker(m) /\ spc[m] \in {"send", "append", "done"}}

\* the status changes of a tracked message that stay on the path
\* QUEUED, SENDING, (SENT | FAILED)
Forward(a, b) ==
    \/ a = STATUS_CREATED /\ b = STATUS_QUEUED
    \/ a = STATUS_QUEUED /\ b \in {STATUS_SENDING, STATUS_SENT, STATUS_FAILED}
    \/ a = STATUS_SENDING /\ b \in {STATUS_SENT, STATUS_FAILED}

\* C2: a message handed to monitor() and then to send() only moves forward on
\* QUEUED, SENDING, (SENT | FAILED): never back to QUEUED after SENDING, and no
\* change after SENT or FAILED
C2_StatusMonotonic ==
    [][\A m \in Msgs :
         ToTracker(m) /\ status'[m] # status[m] => Forward(status[m], status'[m])]_vars

\* C8: a tracking cycle that has completed leaves every message that was
\* overdue when it began SENT or FAILED, whatever the tx text was
C8_OverdueFails ==
    mon_cycle.done /\ monpc = "sleep" =>
        \A m \in mon_cycle.overdue : status[m] \in {STATUS_SENT, STATUS_FAILED}

\* the messages of set S in the order of their ids, which is the order the
\* application thread handed them to monitor()
RECURSIVE InOrder(_)
InOrder(S) ==
    IF S = {} THEN <<>>
    ELSE LET m == CHOOSE x \in S : \A y \in S : x <= y
         IN <<m>> \o InOrder(S \ {m})

\* C9: when a tracking cycle ends the tracker's queue holds exactly the
\* monitored messages that are QUEUED or SENDING, in the order they were handed
\* to monitor()
C9_QueueContent ==
    [][monpc = "loop" /\ monpc' = "sleep" =>
         msg_queue' = InOrder({m \in Monitored :
                                 status'[m] \in {STATUS_QUEUED, STATUS_SENDING}})]_vars

\* the spots stored for a station and command
SpotsOf(sps, who, c) == SelectSeq(sps, LAMBDA sp : sp.who = who /\ sp.cmd = c)

\* C10: of two qualifying messages of one station and command, the second
\* stores no spot when it comes less than 10 seconds after the first was
\* stored, and stores one when it comes 11 or more seconds after: no two stored
\* spots of one station and command are less than 10 seconds apart, and the
\* latest qualifying message has a stored spot less than 11 seconds before it
C10_SpotDedup ==
    /\ \A i, j \in 1..Len(spots) :
         i < j /\ spots[i].who = spots[j].who /\ spots[i].cmd = spots[j].cmd =>
            spots[j].ts - spots[i].ts >= RecentAge
    /\ heard.at >= 0 =>
         LET same == SpotsOf(spots, heard.who, heard.cmd)
         IN \E i \in 1..Len(same) :
               /\ same[i].ts <= heard.at
               /\ heard.at - same[i].ts < RecentAge + 1

\* two spots of one station and command were stored 11 or more seconds apart,
\* and a later message of that station and command stored none
C10_Witness ==
    \E i, j \in 1..Len(spots) :
        /\ i < j
        /\ spots[i].who = heard.who /\ spots[j].who = heard.who
        /\ spots[i].cmd = heard.cmd /\ spots[j].cmd = heard.cmd
        /\ spots[j].ts - spots[i].ts >= RecentAge + 1
        /\ heard.at > spots[j].ts
        /\ \A k \in 1..Len(spots) : spots[k].ts # heard.at

\* the last n elements of a sequence (all of it when it is shorter)
LastN(q, n) == IF Len(q) <= n THEN q ELSE SubSeq(q, Len(q) - n + 1, Len(q))

\* C11: with max_spots unchanged the store never holds more than max_spots
\* spots, and it holds exactly the newest max_spots of the spots inserted, in
\* the order of their insertion
C11_SpotCapacity ==
    /\ Len(spots) <= max_spots
    /\ spots = LastN(spot_log, max_spots)

\* more spots than max_spots + 1 were inserted, and the store is full
C11_Witness ==
    /\ max_spots > 1
    /\ Len(spot_log) > max_spots + 1
    /\ Len(spots) = max_spots

\* the frames of the current read that the loop has handled, and whether the
\* frame it handles next holds the error symbol
Handled == SubSeq(rx_read, 1, Len(rx_read) - Len(rx_msgs))
HeadHasErr == Head(rx_msgs).value # None /\ HasErr(Head(rx_msgs).value)

\* C12: a step of the receive loop that takes a frame whose value holds the
\* error symbol changes no state entry, stores no spot, leaves the window
\* predictor and the consumer queue as they were, and goes on with the next
\* frame of the read; the frames handed to _process_message are the frames
\* handled without the symbol, in the order of the read.
C12_ErrorDiscard ==
    [][/\ rx_msgs # <<>> /\ rx_msgs' # rx_msgs /\ HeadHasErr
          => /\ rx_msgs' = Tail(rx_msgs)
             /\ UNCHANGED <<state, spots, recent_spots, spot_log, stampVars, rx_queue>>
       /\ rx_done' = SelectSeq(Handled', LAMBDA f : ~(f.value # None /\ HasErr(f.value)))]_vars

\* a read whose first frame was discarded and whose second was processed
C12_Witness ==
    /\ Len(rx_read) = 2
    /\ rx_msgs = <<>>
    /\ rx_read[1].value # None /\ HasErr(rx_read[1].value)
    /\ rx_done = <<rx_read[2]>>
    /\ rx_queue # <<>>
    /\ rx_queue[Len(rx_queue)].type = rx_read[2].type

\* C13: while the session is online the dispatcher and the receive loop are
\* running, and the queue lock is held only by a running dispatcher pass (so
\* that a send() that waits for the lock gets it).
C13_WorkerSurvival ==
    online =>
        /\ txpc # "dead"
        /\ rxpc # "dead"
        /\ tx_queue_lock = "tx" => txpc = "loop"

\* C14: once the online flag is cleared the window timer makes no further
\* transition callback.
C14_Cancellation == [][~online => window_callbacks' = window_callbacks]_vars

\* the step in which thread h stamps a tx frame (process_tx_frame, lines
\* 109-111), and the value next_transition_timestamp(0) returns; the fallback
\* stands for None, and with count 0 the window duration that the call reads
\* does not matter
Stamps(h) == hpc[h] = "txlock" /\ hpc'[h] = "txstop"
Predicted == NextTransitionTimestamp(0, -1, FastWindow)

C17_FallbackDisabled ==
    [][/\ last_tx_frame_timestamp # 0
       /\ \A h \in Handlers : hpc[h] \notin {"txlock", "txstop"}
       /\ \E h \in Handlers : hpc[h] = "rxwrite" /\ hpc'[h] = "idle"
       => UNCHANGED <<next_window_timestamp, last_rx_msg_timestamp>>]_vars

\* C15: when the dispatcher writes a frame to the socket it does not hold
\* the transmit-queue lock.
C15_NoLockAcrossWrite ==
    [][\A m \in Msgs : Writes(m) => tx_queue_lock = "free"]_vars

\* C18: the consumer queue holds, in arrival order and with status QUEUED,
\* exactly the messages handed to _process_message and not yet taken (the
\* history numbers them as they are handed over); get_next_message takes the
\* first of them and returns it with status RECEIVED, and with an empty queue
\* it returns None and leaves the queue empty.
C18_Delivery ==
    [][/\ \A i \in 1..Len(rx_queue') :
             /\ rx_queue'[i].status = STATUS_QUEUED
             /\ rx_queue'[i].id = rx_seq' - Len(rx_queue') + i
       /\ Len(rx_queue') < Len(rx_queue) =>
             /\ rx_queue' = Tail(rx_queue)
             /\ got' = [Head(rx_queue) EXCEPT !.status = STATUS_RECEIVED]
       /\ (got' # got /\ rx_queue = <<>>) => (got' = NoMessage /\ rx_queue' = <<>>)]_vars

\* the positions of a watch() call between its reset (line 201) and the
\* clearing of the marker (line 213)
Watches(w) == wpc[w] \in {"poll", "check", "restore", "clear"}

\* C19: while a watch() call is between its reset and its return the marker
\* _watching names its item, and the marker is None when no call is in
\* progress.
C19_SingleWatch ==
    /\ \A w \in Watchers : Watches(w) => watching = witem[w]
    /\ (\A w \in Watchers : wpc[w] \in {"idle", "returned"}) => watching = None

\* C20, as claimed: while the marker _watching is tx_text, a step in which
\* the receive path stores a value leaves the tx_text entry of the state
\* store as it was.
C20_NoWriteWhileWatched ==
    [][watching = "tx_text" /\ rx_state' # rx_state
       => state'["tx_text"] = state["tx_text"]]_vars

\* C20, amended: a dispatcher pass that finds the marker on tx_text at its
\* test (line 272) goes on to the queue and does not refresh its local
\* tx_text flag in that pass; the flag changes only in the read that this
\* test guards.
C20_NoRefreshWhileWatched ==
    [][/\ (txpc = "top" /\ txpc' # "top" /\ watching = "tx_text")
          => (txpc' = "lock" /\ tx_text' = tx_text /\ tx_skipped')
       /\ (tx_skipped /\ txpc # "top") => tx_text' = tx_text
       /\ tx_text' # tx_text => txpc = "read"]_vars

\* a pass went on to the queue during a watch on tx_text that had its
\* response: the store says text is being sent and the local flag does not
C20_Witness ==
    /\ txpc = "lock"
    /\ tx_skipped
    /\ watching = "tx_text"
    /\ Transmitting(state)
    /\ ~tx_text

\* C21: a call of watch() with a name that is no key of the state store
\* returns None in one step and leaves every state entry, the marker
\* _watching and both queues as they were.
C21_UnknownItem ==
    [][\A w \in Watchers :
          (wpc[w] = "idle" /\ wpc'[w] # "idle" /\ witem'[w] \notin StateKeys)
          => /\ wpc'[w] = "returned"
             /\ wret'[w] = None
             /\ UNCHANGED <<state, watching, rx_queue, tx_queue>>]_vars

\* watch('nosuch') has returned while the store holds a tx text
C21_Witness ==
    /\ wpc["w1"] = "returned"
    /\ witem["w1"] \notin StateKeys
    /\ wret["w1"] = None
    /\ state["tx_text"] # None

\* a step of the receive path's message processing: a message is appended to
\* the rx queue, or processing raised and ended the thread
ReceiveStep == Len(rx_queue') > Len(rx_queue) \/ rxpc' # rxpc

\* C22: every change to the value of a state store entry is made by the
\* receive path's message processing; watch() and the activity queries change
\* no stored value
C22_WriterExclusivity == [][state' # state => ReceiveStep]_vars

\* C23: when the watch inside an activity query times out with no prior value
\* (watch() returns None), the query returns to its caller without raising
C23_TimeoutSentinel ==
    [][\A w \in Watchers :
          (wpc[w] = "returned" /\ wret[w] = None /\ adone' = adone + 1)
          => ~araised']_vars

\* the responses the receive path has stored to the requests of the queries
\* begun (one response to a request, in order); the query in progress is
\* number adone + 1
Responses == rx_seq

\* C29: in a request/response operation the watched variable is reset to None
\* before the request can be written to the socket, so the reset of watch()
\* never erases a response to the operation's own request
C29_ResetBeforeRequest ==
    [][\A w \in Watchers :
          (wpc[w] = "reset" /\ wpc'[w] = "poll") => Responses <= adone]_vars

\* m is in the sequence q
InSeq(m, q) == \E i \in 1..Len(q) : q[i] = m

\* C25: a message whose msg.error process_outgoing has set is returned with the
\* status FAILED and is neither handed to the status tracker nor put on the tx
\* queue, so it is never written to the socket
C25_Rejected ==
    \A m \in rejected :
        /\ status[m] = STATUS_FAILED
        /\ ~InSeq(m, msg_queue)
        /\ ~InSeq(m, tx_queue)
        /\ ~InSeq(m, txcopy)
        /\ ~InSeq(m, socket)

\* a message was rejected and returned, and a later one was written
C25_Witness ==
    \E m \in rejected : \E x \in Msgs :
        /\ spc[m] = "done"
        /\ status[m] = STATUS_FAILED
        /\ x > m
        /\ InSeq(x, socket)

\* the step enqueues a STATION_GET_CALLSIGN request
HbEnqueues ==
    \E m \in Msgs :
        /\ m \notin Created
        /\ tx_queue' = Append(tx_queue, m)
        /\ mtype'[m] = STATION_GET_CALLSIGN

\* C24: a run of the probe more than 300 s after the last read of data sets
\* connected to False and then enqueues a STATION_GET_CALLSIGN request (and a run
\* within 300 s does neither); connected becomes True again only in a read of
\* data by the receive loop, which also sets the last-activity time to the time
\* of the read
C24_LivenessProbe ==
    [][/\ (hbpc = "test" /\ hbpc' # "test")
          => hbpc' = (IF Time - last_rx_timestamp > 300 THEN "set" ELSE "sleep")
       /\ (hbpc = "set" /\ hbpc' # "set") => (~connected' /\ hbpc' = "send")
       /\ (hbpc = "send" /\ hbpc' # "send") => HbEnqueues
       /\ (connected /\ ~connected') => hbpc = "set"
       /\ (~connected /\ connected')
          => (rx_msgs = <<>> /\ rx_msgs' # <<>> /\ last_rx_timestamp' = Time)]_vars

\* a probe found the receive side silent for more than 300 s after a read, set
\* connected to False and enqueued its request
C24_Witness ==
    /\ last_rx_timestamp > 0
    /\ Time - last_rx_timestamp > 300
    /\ ~connected
    /\ hbpc = "sleep"
    /\ \E i \in 1..Len(tx_queue) : mtype[tx_queue[i]] = STATION_GET_CALLSIGN

\* the step is the turn of the first tracked message in a tracking cycle
TrackerTurn == monpc = "loop" /\ mon_left > 0 /\ mon_left' = mon_left - 1

\* destination + two spaces + stripped value of m equals the normalised
\* outgoing text
TextMatches(m) == Destination \o <<Space, Space>> \o Strip(mvalue[m]) = mon_text

\* C26: in a tracking cycle where the outgoing text is known, the turn of a
\* tracked message takes exactly one step, in this priority: QUEUED becomes
\* SENDING iff its text equals the normalised outgoing text; else SENDING becomes
\* SENT iff the text no longer equals it; else the message becomes FAILED iff it
\* has timed out; else it is unchanged. The turn changes no other message, a
\* QUEUED message never becomes SENT in one turn, and the observer is called
\* once, with the message, iff the status changes
C26_TransitionRelation ==
    [][TrackerTurn =>
          LET m == Head(msg_queue)
              timedOut == now - mts[m] > 30 * tx_window
          IN /\ mon_text # None
             /\ status'[m] =
                  (IF status[m] = STATUS_QUEUED /\ TextMatches(m) THEN STATUS_SENDING
                   ELSE IF status[m] = STATUS_SENDING /\ ~TextMatches(m) THEN STATUS_SENT
                   ELSE IF timedOut THEN STATUS_FAILED
                   ELSE status[m])
             /\ \A x \in Msgs \ {m} : status'[x] = status[x]
             /\ ~(status[m] = STATUS_QUEUED /\ status'[m] = STATUS_SENT)
             /\ called'.msg = m
             /\ called'.n = (IF status'[m] # status[m] THEN 1 ELSE 0)]_vars

\* turns of the tracker have made a message SENDING and then SENT, with the
\* observer called for the latter
C26_Witness ==
    /\ called.n = 1
    /\ called.msg \in Msgs
    /\ status[called.msg] = STATUS_SENT
    /\ monpc = "loop"

\* the step writes a TX_SEND_MESSAGE frame to the socket
WritesSendMessage == \E m \in Msgs : Writes(m) /\ mtype[m] = TX_SEND_MESSAGE

\* C28: after the dispatcher has written a TX_SEND_MESSAGE frame it writes no
\* other, in that pass or a later one, until it has read the outgoing text
\* non-empty and afterwards empty; at most one is written in a pass
C28_ForceHold == [][WritesSendMessage => (tx_seen = "clear" /\ tx_pass = 0)]_vars

\* a second TX_SEND_MESSAGE has been written, after the dispatcher read the
\* first in the outgoing text and then read the text empty
C28_Witness ==
    /\ Len(socket) = 2
    /\ \A i \in 1..2 : mtype[socket[i]] = TX_SEND_MESSAGE
    /\ tx_seen = "none"

\* the outgoing text in the state store is empty
TextEmpty == state["tx_text"] # None /\ Len(Strip(state["tx_text"])) = 0

\* C27: under fair scheduling while online, every enqueued TX_SEND_MESSAGE is
\* eventually written to the socket provided the outgoing text is empty
\* infinitely often: the force hold set by the previous send does not hold it
\* back for ever
C27_SendProgress ==
    ([]<>TextEmpty)
    => \A m \in Msgs :
           (InSeq(m, tx_queue) /\ mtype[m] = TX_SEND_MESSAGE) ~> InSeq(m, socket)

\* C30: if the receive path stores a non-None value in state[x] between the
\* start and the return of watch(x), then when watch returns state[x] holds the
\* value the receive path stored, not the pre-call value written back by the
\* rollback
C30_RollbackKeepsResponse ==
    [][\A w \in Observed :
          (wpc[w] = "ret" /\ wpc'[w] = "returned" /\ wg[w].nonNone)
          => state[witem[w]] = rx_state[witem[w]]]_vars

\* C31: a tracked message has the status SENT only after the dispatcher has
\* written that same message to the socket
C31_SentMeansWritten ==
    \A m \in Msgs : status[m] = STATUS_SENT => InSeq(m, socket)

\* C32: once a tracked message has the status FAILED the dispatcher does not
\* write it to the socket
C32_FailedNotWritten ==
    [][\A m \in Msgs : status[m] = STATUS_FAILED => ~Writes(m)]_vars

\* C33: an observer that calls monitor() from inside the callback returns and
\* the tracker loop continues: the tracker's thread never waits for the queue
\* lock that it holds itself
C33_ObserverReentrancy == ~(monpc = "blocked" /\ msg_queue_lock = "monitor")

\* C34: once the receive loop has read and handled every byte the modem wrote,
\* every frame the modem wrote has been processed exactly once, however the
\* stream was divided among the socket reads
C34_StreamSegmentation ==
    (wire = <<>> /\ rx_msgs = <<>>) => rx_seq = wrote

\* no callback thread is delivering a tx frame or an rx message
WinQuiet == \A h \in Handlers : hpc[h] = "idle"

\* a step of the timer: the handlers and the clock stand still
TimerStep == hpc' = hpc /\ hts' = hts /\ now' = now /\ online' = online

\* C35: the transition callback is called only when the transition is known
\* and has passed, and in the same step the prediction grows by exactly one
\* window duration; a step of the timer that moves the prediction calls the
\* callback exactly once and never moves an unknown prediction; and once no
\* tx frame or rx message arrives any more, a passed prediction is eventually
\* not earlier than the clock
C35_RollForward ==
    /\ [][/\ window_callbacks' # window_callbacks =>
               /\ WinPassed
               /\ window_callbacks' = window_callbacks + 1
               /\ (next_window_timestamp' - next_window_timestamp) \in Windows
          /\ (TimerStep /\ next_window_timestamp' # next_window_timestamp) =>
               /\ next_window_timestamp # 0
               /\ window_callbacks' = window_callbacks + 1]_vars
    /\ (<>[]WinQuiet) => (WinPassed ~> (next_window_timestamp >= now))

\* the timer has rolled a passed prediction forward and it is still behind the
\* clock
C35_Witness ==
    /\ window_callbacks > 0
    /\ WinPassed
    /\ WinQuiet

\* the callback thread h sets the timestamps from its rx message
RxSets(h) == hpc[h] = "rxwrite" /\ hpc'[h] = "idle"

\* the callback thread h returns from process_rx_msg without setting them
RxIgnores(h) == hpc[h] = "rxtest" /\ hpc'[h] = "idle"

\* C36: before any tx frame has been processed, an rx message with timestamp t
\* that sets the last-rx timestamp and the prediction sets them to t and t + 2
\* and is more than half a window after the last-rx timestamp it replaces, and
\* one that is ignored is not and leaves both unchanged
C36_FirstRxPerCycle ==
    [][\A h \in Handlers :
         /\ (RxSets(h) /\ last_tx_frame_timestamp = 0) =>
              /\ last_rx_msg_timestamp' = hts[h]
              /\ next_window_timestamp' = hts[h] + 2
              /\ \E w \in Windows : RxMsgFirst(hts[h], w)
         /\ RxIgnores(h) =>
              /\ \E w \in Windows : ~RxMsgFirst(hts[h], w)
              /\ UNCHANGED <<last_rx_msg_timestamp, next_window_timestamp>>]_vars

\* the number of times m occurs in q
Times(m, q) == Cardinality({i \in 1..Len(q) : q[i] = m})

\* C37: a message enqueued with send() is written to the socket at most once;
\* once written it is no longer in the transmit queue, and while it has not
\* been written it is in the queue
C37_AtMostOnceWrite ==
    \A m \in Msgs :
        /\ Times(m, socket) <= 1
        /\ ~(InSeq(m, socket) /\ InSeq(m, tx_queue))
        /\ (spc[m] = "done" /\ ~InSeq(m, socket)) => InSeq(m, tx_queue)

\* in the middle of a dispatch pass one message has been written and removed
\* and another, enqueued before the pass, is held back in the queue
C37_Witness ==
    /\ txpc = "loop"
    /\ \E m, n \in Msgs :
         /\ m # n
         /\ InSeq(m, socket) /\ ~InSeq(m, tx_queue)
         /\ spc[n] = "done" /\ InSeq(n, tx_queue) /\ ~InSeq(n, txcopy)

\* C38: the monitor thread that finds the interval elapsed while the monitor
\* is enabled and not paused sends a heartbeat and goes on to the next
\* interval; a heartbeat is sent only when the interval has elapsed and the
\* monitor is not paused; and the thread, once it has seen the monitor
\* disabled, sends nothing more
C38_HeartbeatMonitor ==
    [][/\ (hbmpc = "send" /\ hbmpc' # "send" /\ hb_enabled /\ ~hb_paused) =>
            /\ hb_sent' = hb_sent + 1
            /\ last_hb_timestamp' = Time
            /\ hbmpc' = "outer"
       /\ hb_sent' # hb_sent => (~hb_paused /\ ~HbmWaits)
       /\ hbmpc = "stopped" => (hbmpc' = "stopped" /\ hb_sent' = hb_sent)]_vars

\* the number of spots of the list equal to spot
InList(spot, list) == Cardinality({i \in 1..Len(list) : list[i] = spot})

\* C39: a call of _callback with the new spots starts, for every new spot
\* whose origin is in the station watch list, one thread for each registered
\* station spot callback, and for every new spot whose destination is in the
\* group watch list one thread for each registered group spot callback,
\* whether or not a general spots callback is registered
C39_WatchedSpotCallbacks ==
    [][spot_calls'.n # spot_calls.n =>
         \A spot \in NewSpots :
            /\ spot.origin \in station_watch_list =>
                 InList(spot, spot_calls'.station)
                   = spot_callbacks["station"] * InList(spot, spot_calls'.new)
            /\ spot.destination \in group_watch_list =>
                 InList(spot, spot_calls'.group)
                   = spot_callbacks["group"] * InList(spot, spot_calls'.new)]_vars

\* C40: when set_tx_text goes on to read the tx text back, its TX_SET_TEXT
\* message carrying the text has been enqueued exactly once: it is in the
\* transmit queue or already written to the socket
C40_SetTxTextEnqueues ==
    [][\A m \in Msgs :
         (mtype[m] = TX_SET_TEXT /\ spc[m] = "created" /\ spc'[m] = "done") =>
            Times(m, tx_queue) + Times(m, socket) = 1]_vars

====
